---- MODULE Spec2Model ----
(***************************************************************************)
(* Resumable interrupt / checkpoint workflows of the Langgraph-study       *)
(* tutorials: the graphs, node functions and driver calls of               *)
(* human_in_the_loop_examples.py and memory_examples.py, run by a          *)
(* superstep runtime with a checkpoint store keyed by thread id.           *)
(***************************************************************************)
EXTENDS Integers, Sequences, FiniteSets, TLC

VARIABLES
    demo,       \* the tutorial graph under execution
    store,      \* thread id -> log of checkpoints (InMemorySaver)
    status,     \* session -> controller state
    writes,     \* session -> results of the tasks of the current superstep
    resumeVals, \* session -> node -> resume values delivered so far, by position
    result,     \* session -> what the last invoke / resume call returned
    trace,      \* session -> nodes entered since the last invoke
    mark,       \* session -> length of trace when the last resume was issued
    ops,        \* session -> the caller's operations on the session so far
    effects,    \* session -> arguments of the api calls made so far
    iter,       \* the caller's iteration over a history(sessionId) sequence
    builder,    \* a StateGraph under construction: the calls made and their effect
    running,    \* session -> the nodes that have begun and not yet returned
    nested,     \* session -> where the parent / subgraph demo's run stands
    subStore,   \* thread id -> checkpoint namespace -> log (parent / subgraph demo)
    writing,    \* thread id -> the run loops appending to the thread right now
    py          \* a call of one of the agent tutorial's run_* functions

\* The variables of the run of the graphs.
runVars == <<demo, store, status, writes, resumeVals, result, trace, mark, ops, effects>>

\* The variables outside the run of the graphs.
others == <<iter, builder, running, nested, subStore, writing, py>>

vars == <<runVars, others>>

(***************************************************************************)
(* Bounds.                                                                 *)
(***************************************************************************)
\* Longest checkpoint log of one session.
MaxSeq == 6

Sessions == {"s1", "s2"}

Demos == {"interrupt", "chat", "validate", "edit", "multi", "book",
          "steps", "fx_after", "fx_node"}

\* langgraph.graph.START and END
START == "__start__"

END == "__end__"

(***************************************************************************)
(* Python values: an int, a str, None, a bool or a dict.  A dict carries one key  *)
(* k with string value s, and for a tool review response the hotel name of *)
(* its "args" in a ("" when the response has no args).  A list holds one    *)
(* dict.                                                                   *)
(***************************************************************************)
IntV(n) == [t |-> "int", i |-> n, s |-> "", k |-> "", a |-> ""]
StrV(x) == [t |-> "str", i |-> 0, s |-> x, k |-> "", a |-> ""]
NoneV == [t |-> "none", i |-> 0, s |-> "", k |-> "", a |-> ""]
BoolV(b) == [t |-> "bool", i |-> IF b THEN 1 ELSE 0, s |-> "", k |-> "", a |-> ""]
DictV(key, x) == [t |-> "dict", i |-> 0, s |-> x, k |-> key, a |-> ""]
Resp(type, hotel) == [t |-> "dict", i |-> 0, s |-> type, k |-> "type", a |-> hotel]
ListV(v) == [v EXCEPT !.t = "list"]

\* d[key] on a value: the string under key, or a KeyError / TypeError.
HasKey(v, key) == v.t = "dict" /\ v.k = key

EmptyState == [f \in {} |-> NoneV]

\* A chat message; n is the number of messages the model saw when it answered.
UserMsg(c) == [role |-> "user", content |-> c, n |-> 0, call |-> ""]
AIMsg(seen, call) == [role |-> "ai", content |-> "reply", n |-> seen, call |-> call]
ToolMsg(c) == [role |-> "tool", content |-> c, n |-> 0, call |-> ""]

(***************************************************************************)
(* The graphs as the builders construct them: the nodes, the targets of    *)
(* the edges out of START (add_edge(START, n), set_entry_point(n)) and the *)
(* static edges out of each node (an edge to END contributes no            *)
(* successor).                                                             *)
(***************************************************************************)
InterruptGraph ==
    [nodes |-> {"human_node"},
     start |-> {"human_node"},
     edges |-> [n \in {"human_node"} |-> {}]]

ChatGraph ==
    [nodes |-> {"call_model"},
     start |-> {"call_model"},
     edges |-> [n \in {"call_model"} |-> {}]]

ValidateGraph ==
    [nodes |-> {"human_node"},
     start |-> {"human_node"},
     edges |-> [n \in {"human_node"} |-> {}]]

\* (variant: the edge human_review_edit -> downstream_use is missing)
EditGraph_no_downstream_edge ==
    [nodes |-> {"generate_summary", "human_review_edit", "downstream_use"},
     start |-> {"generate_summary"},
     edges |-> [n \in {"generate_summary", "human_review_edit", "downstream_use"} |->
                  IF n = "generate_summary" THEN {"human_review_edit"} ELSE {}]]

EditGraph ==
    [nodes |-> {"generate_summary", "human_review_edit", "downstream_use"},
     start |-> {"generate_summary"},
     edges |-> [n \in {"generate_summary", "human_review_edit", "downstream_use"} |->
                  CASE n = "generate_summary" -> {"human_review_edit"}
                    [] n = "human_review_edit" -> {"downstream_use"}
                    [] n = "downstream_use" -> {}]]

\* (variant: the second node follows the first)
MultiGraph_chained ==
    [nodes |-> {"human_node_1", "human_node_2"},
     start |-> {"human_node_1"},
     edges |-> [n \in {"human_node_1", "human_node_2"} |->
                  IF n = "human_node_1" THEN {"human_node_2"} ELSE {}]]

MultiGraph ==
    [nodes |-> {"human_node_1", "human_node_2"},
     start |-> {"human_node_1", "human_node_2"},
     edges |-> [n \in {"human_node_1", "human_node_2"} |-> {}]]

\* create_react_agent: the agent node routes to tools or ends; tools -> agent.
BookGraph ==
    [nodes |-> {"agent", "tools"},
     start |-> {"agent"},
     edges |-> [n \in {"agent", "tools"} |-> IF n = "tools" THEN {"agent"} ELSE {}]]

\* demo_static_interrupt_compile_time
StepsGraph ==
    [nodes |-> {"step_1", "step_2", "step_3"},
     start |-> {"step_1"},
     edges |-> [n \in {"step_1", "step_2", "step_3"} |->
                  CASE n = "step_1" -> {"step_2"}
                    [] n = "step_2" -> {"step_3"}
                    [] n = "step_3" -> {}]]

\* demo_side_effects_after_interrupt
FxAfterGraph ==
    [nodes |-> {"human_node"},
     start |-> {"human_node"},
     edges |-> [n \in {"human_node"} |-> {}]]

\* demo_side_effects_separate_node
FxNodeGraph ==
    [nodes |-> {"human_node", "api_call_node"},
     start |-> {"human_node"},
     edges |-> [n \in {"human_node", "api_call_node"} |->
                  IF n = "human_node" THEN {"api_call_node"} ELSE {}]]

\* demo_approve_or_reject_minimal
ApproveGraph ==
    [nodes |-> {"human_approval", "some_node", "another_node"},
     start |-> {"human_approval"},
     edges |-> [n \in {"human_approval", "some_node", "another_node"} |-> {}]]

\* demo_approve_or_reject_extended
ApproveExtGraph ==
    [nodes |-> {"generate_llm_output", "human_approval", "approved_path", "rejected_path"},
     start |-> {"generate_llm_output"},
     edges |-> [n \in {"generate_llm_output", "human_approval", "approved_path",
                       "rejected_path"} |->
                  IF n = "generate_llm_output" THEN {"human_approval"} ELSE {}]]

\* demo_validate_input_extended
ValidateExtGraph ==
    [nodes |-> {"get_valid_age", "report_age"},
     start |-> {"get_valid_age"},
     edges |-> [n \in {"get_valid_age", "report_age"} |->
                  IF n = "get_valid_age" THEN {"report_age"} ELSE {}]]

\* build_tool_chatbot: START -> chatbot, tools -> chatbot, chatbot -> END, and
\* the conditional edges of route_tools out of chatbot.
ToolChatGraph ==
    [nodes |-> {"chatbot", "tools"},
     start |-> {"chatbot"},
     edges |-> [n \in {"chatbot", "tools"} |-> IF n = "tools" THEN {"chatbot"} ELSE {}]]

\* demo_multiple_interrupts_in_one_node_caution
CautionGraph ==
    [nodes |-> {"human_node"},
     start |-> {"human_node"},
     edges |-> [n \in {"human_node"} |-> {}]]

Graph(d) ==
    CASE d = "interrupt" -> InterruptGraph
      [] d = "chat" -> ChatGraph
      [] d = "validate" -> ValidateGraph
      [] d = "edit" -> EditGraph
      [] d = "multi" -> MultiGraph
      [] d = "book" -> BookGraph
      [] d = "steps" -> StepsGraph
      [] d = "fx_after" -> FxAfterGraph
      [] d = "fx_node" -> FxNodeGraph
      [] d = "caution" -> CautionGraph
      [] d = "validate_ext" -> ValidateExtGraph
      [] d = "approve" -> ApproveGraph
      [] d = "wrap" -> BookGraph
      [] d = "toolchat" -> ToolChatGraph
      [] d = "approve_ext" -> ApproveExtGraph

\* (variant: compile is given no interrupt_before)
InterruptBefore_unset(d) == {}

\* compile(..., interrupt_before=[...]): the nodes before which a run stops.
InterruptBefore(d) == IF d = "steps" THEN {"step_3"} ELSE {}

\* Fields whose updates are appended (add_messages) instead of overwriting.
Appended(d) == IF d \in {"chat", "book", "wrap", "toolchat"} THEN {"messages"} ELSE {}

\* The thread id a session's config carries.
\* (variant: every config names the same thread)
ThreadOf_shared(s) == "s1"

ThreadOf(s) == s

\* Demos whose driver invokes the same thread again after a run completed.
MultiTurn(d) == d = "chat"

(***************************************************************************)
(* What a node execution yields: a completed update (with the targets of   *)
(* a Command(goto=...) if any), an interrupt carrying a payload, or an     *)
(* exception.  A payload is the key (or prompt) k and the value v shown.   *)
(* fx lists the arguments of the api calls the execution made.             *)
(***************************************************************************)
NoPayload == [k |-> "", v |-> NoneV]
Done(upd, goto) ==
    [kind |-> "done", update |-> upd, goto |-> goto, payload |-> NoPayload, fx |-> <<>>]
Intr(p) ==
    [kind |-> "interrupt", update |-> EmptyState, goto |-> {}, payload |-> p, fx |-> <<>>]
Err(e) ==
    [kind |-> "error", update |-> EmptyState, goto |-> {}, payload |-> [k |-> e, v |-> NoneV],
     fx |-> <<>>]

\* The execution also made the api calls with the arguments calls, in order.
WithCalls(r, calls) == [r EXCEPT !.fx = calls]

(***************************************************************************)
(* The node functions.  st is the state the node reads, rv the resume      *)
(* values delivered to this task so far: the i-th interrupt(...) call of   *)
(* an execution returns rv[i] when it exists and pauses the run otherwise. *)
(***************************************************************************)
\* demo_interrupt_minimal / demo_interrupt_extended
\* (variant: the node returns the text it was given, not the human's value)
human_node_keeps_text(st, rv) ==
    IF "some_text" \notin DOMAIN st THEN Err("KeyError")
    ELSE IF Len(rv) = 0 THEN Intr([k |-> "text_to_revise", v |-> st["some_text"]])
    ELSE Done([some_text |-> st["some_text"]], {})

human_node(st, rv) ==
    IF "some_text" \notin DOMAIN st THEN Err("KeyError")
    ELSE IF Len(rv) = 0 THEN Intr([k |-> "text_to_revise", v |-> st["some_text"]])
    ELSE Done([some_text |-> rv[1]], {})

\* memory_examples: the model answers the conversation it is shown.
call_model(st) ==
    IF "messages" \notin DOMAIN st THEN Err("KeyError")
    ELSE Done([messages |-> <<AIMsg(Len(st["messages"]), "")>>], {})

\* demo_validate_input_minimal: ask until the answer is an int >= 0.
ValidAge(answer) == answer.t \in {"int", "bool"} /\ answer.i >= 0

\* (variant: the loop answers with the first value it was ever given)
AskAge_first_answer(rv, i, question) ==
    IF i > Len(rv) THEN Intr(question)
    ELSE IF ~ValidAge(rv[Len(rv)])
         THEN Intr([k |-> "is not a valid age. What is your age?", v |-> rv[Len(rv)]])
         ELSE Done([age |-> rv[1]], {})

RECURSIVE AskAge(_, _, _)
AskAge(rv, i, question) ==
    IF i > Len(rv) THEN Intr(question)
    ELSE IF ~ValidAge(rv[i])
         THEN AskAge(rv, i + 1, [k |-> "is not a valid age. What is your age?", v |-> rv[i]])
         ELSE Done([age |-> rv[i]], {})

validate_human_node(st, rv) == AskAge(rv, 1, [k |-> "What is your age?", v |-> NoneV])

\* str(v)
Str(v) ==
    CASE v.t = "int" -> ToString(v.i)
      [] v.t = "bool" -> IF v.i # 0 THEN "True" ELSE "False"
      [] v.t = "str" -> v.s
      [] v.t = "none" -> "None"
      [] v.t = "dict" -> "{'" \o v.k \o "': '" \o v.s \o "'}"
      [] v.t = "list" -> "[{'" \o v.k \o "': '" \o v.s \o "'}]"

\* The integers whose decimal numerals the drivers' strings can spell.
KnownInts == -10..25

\* int(s) on a string: the integer s spells, or a ValueError.
ParseInt(s) ==
    IF \E n \in KnownInts : ToString(n) = s
    THEN [ok |-> TRUE, i |-> CHOOSE n \in KnownInts : ToString(n) = s]
    ELSE [ok |-> FALSE, i |-> 0]

\* demo_validate_input_extended: ask until int(str(user_input)) is an
\* integer >= 0, and write that integer.
\* (variant: the age is not checked against 0)
ParsedAge_any_sign(user_input) ==
    ParseInt(Str(user_input))

ParsedAge(user_input) ==
    LET age == ParseInt(Str(user_input))
    IN IF age.ok /\ age.i < 0 THEN [ok |-> FALSE, i |-> 0] ELSE age

RECURSIVE AskValidAge(_, _, _)
AskValidAge(rv, i, prompt) ==
    IF i > Len(rv) THEN Intr(prompt)
    ELSE IF ~ParsedAge(rv[i]).ok
         THEN AskValidAge(rv, i + 1,
                          [k |-> "is not valid. Please enter a non-negative integer for age.",
                           v |-> rv[i]])
         ELSE Done([age |-> IntV(ParsedAge(rv[i]).i)], {})

get_valid_age(st, rv) ==
    AskValidAge(rv, 1, [k |-> "Please enter your age (must be a non-negative integer).",
                        v |-> NoneV])

report_age(st) == IF "age" \notin DOMAIN st THEN Err("KeyError") ELSE Done(st, {})

\* demo_edit_state_extended
generate_summary(st) ==
    Done([summary |-> StrV("The cat sat on the mat and looked at the stars.")], {})

human_review_edit(st, rv) ==
    IF "summary" \notin DOMAIN st THEN Err("KeyError")
    ELSE IF Len(rv) = 0 THEN Intr([k |-> "generated_summary", v |-> st["summary"]])
    ELSE IF HasKey(rv[1], "edited_summary") THEN Done([summary |-> StrV(rv[1].s)], {})
    ELSE Err(IF rv[1].t = "dict" THEN "KeyError" ELSE "TypeError")

downstream_use(st) == Done(st, {})

\* demo_resume_multiple_interrupts
\* (variant: the first node writes the second node's field)
human_node_1_writes_text_2(st, rv) ==
    IF "text_1" \notin DOMAIN st THEN Err("KeyError")
    ELSE IF Len(rv) = 0 THEN Intr([k |-> "text_to_revise", v |-> st["text_1"]])
    ELSE Done([text_2 |-> rv[1]], {})

human_node_1(st, rv) ==
    IF "text_1" \notin DOMAIN st THEN Err("KeyError")
    ELSE IF Len(rv) = 0 THEN Intr([k |-> "text_to_revise", v |-> st["text_1"]])
    ELSE Done([text_1 |-> rv[1]], {})

\* (variant: the second node shows the first node's text)
human_node_2_shows_text_1(st, rv) ==
    IF "text_2" \notin DOMAIN st THEN Err("KeyError")
    ELSE IF Len(rv) = 0 THEN Intr([k |-> "text_to_revise", v |-> st["text_1"]])
    ELSE Done([text_2 |-> rv[1]], {})

human_node_2(st, rv) ==
    IF "text_2" \notin DOMAIN st THEN Err("KeyError")
    ELSE IF Len(rv) = 0 THEN Intr([k |-> "text_to_revise", v |-> st["text_2"]])
    ELSE Done([text_2 |-> rv[1]], {})

\* demo_tool_call_review_direct_interrupt: the agent's model either calls
\* book_hotel or gives its final answer.
LLMChoices == {"tool_call", "final"}

agent(st, llm) ==
    IF llm = "tool_call"
    THEN Done([messages |-> <<AIMsg(Len(st["messages"]), "book_hotel")>>], {"tools"})
    ELSE Done([messages |-> <<AIMsg(Len(st["messages"]), "")>>], {})

HotelName == "McKittrick"

\* (variant: a response of unknown type is treated as an approval)
book_hotel_accepts_unknown(hotel_name, rv) ==
    IF Len(rv) = 0 THEN Intr([k |-> "book_hotel", v |-> StrV(hotel_name)])
    ELSE IF ~HasKey(rv[1], "type") THEN Err(IF rv[1].t = "dict" THEN "KeyError" ELSE "TypeError")
    ELSE IF rv[1].s = "edit"
         THEN IF rv[1].a = "" THEN Err("KeyError")
              ELSE Done([messages |-> <<ToolMsg(rv[1].a)>>], {})
    ELSE Done([messages |-> <<ToolMsg(hotel_name)>>], {})

book_hotel(hotel_name, rv) ==
    IF Len(rv) = 0 THEN Intr([k |-> "book_hotel", v |-> StrV(hotel_name)])
    ELSE IF ~HasKey(rv[1], "type") THEN Err(IF rv[1].t = "dict" THEN "KeyError" ELSE "TypeError")
    ELSE IF rv[1].s = "accept" THEN Done([messages |-> <<ToolMsg(hotel_name)>>], {})
    ELSE IF rv[1].s = "edit"
         THEN IF rv[1].a = "" THEN Err("KeyError")
              ELSE Done([messages |-> <<ToolMsg(rv[1].a)>>], {})
    ELSE Err("ValueError")

\* demo_tool_call_review_wrapper: the tool that is wrapped.
plain_book_hotel(hotel_name) == "Successfully booked a stay at " \o hotel_name \o "."

\* add_human_in_the_loop(book_hotel): call_tool_with_interrupt.  The calls
\* of base_tool.invoke are listed with the hotel name they were given.
\* (variant: the tool is invoked before the human is asked)
call_tool_with_interrupt_invokes_first(hotel_name, rv) ==
    IF Len(rv) = 0
    THEN WithCalls(Intr([k |-> "book_hotel", v |-> StrV(hotel_name)]), <<StrV(hotel_name)>>)
    ELSE WithCalls(Done([messages |-> <<ToolMsg(plain_book_hotel(hotel_name))>>], {}),
                   <<StrV(hotel_name)>>)

call_tool_with_interrupt(hotel_name, rv) ==
    IF Len(rv) = 0 THEN Intr([k |-> "book_hotel", v |-> StrV(hotel_name)])
    ELSE IF rv[1].t # "list" THEN Err(IF rv[1].t = "dict" THEN "KeyError" ELSE "TypeError")
    ELSE LET response == [rv[1] EXCEPT !.t = "dict"]
         IN IF ~HasKey(response, "type") THEN Err("KeyError")
            ELSE IF response.s = "accept"
            THEN WithCalls(Done([messages |-> <<ToolMsg(plain_book_hotel(hotel_name))>>], {}),
                           <<StrV(hotel_name)>>)
            ELSE IF response.s = "edit"
            THEN IF response.a = "" THEN Err("KeyError")
                 ELSE WithCalls(Done([messages |-> <<ToolMsg(plain_book_hotel(response.a))>>],
                                     {}),
                                <<StrV(response.a)>>)
            ELSE IF response.s = "response"
            THEN IF response.a = "" THEN Err("KeyError")
                 ELSE Done([messages |-> <<ToolMsg(response.a)>>], {})
            ELSE Err("ValueError")

\* demo_static_interrupt_compile_time
step_1(st) == Done(st, {})

step_2(st) == Done(st, {})

step_3(st) == Done(st, {})

\* demo_side_effects_after_interrupt
\* (variant: the api call is made before the interrupt)
fx_human_node_calls_first(st, rv) ==
    IF Len(rv) = 0
    THEN WithCalls(Intr([k |-> "what is your name?", v |-> NoneV]), <<NoneV>>)
    ELSE WithCalls(Done([answer |-> rv[1]], {}), <<NoneV>>)

fx_human_node(st, rv) ==
    IF Len(rv) = 0 THEN Intr([k |-> "what is your name?", v |-> NoneV])
    ELSE WithCalls(Done([answer |-> rv[1]], {}), <<rv[1]>>)

\* demo_side_effects_separate_node
sep_human_node(st, rv) ==
    IF Len(rv) = 0 THEN Intr([k |-> "what is your name?", v |-> NoneV])
    ELSE Done([answer |-> rv[1]], {})

api_call_node(st) ==
    IF "answer" \notin DOMAIN st THEN Err("KeyError")
    ELSE WithCalls(Done(st, {}), <<st["answer"]>>)

\* bool(v): None, 0 and "" are false.
Truthy(v) ==
    CASE v.t = "none" -> FALSE
      [] v.t = "int" -> v.i # 0
      [] v.t = "bool" -> v.i # 0
      [] v.t = "str" -> v.s # ""
      [] v.t = "dict" -> TRUE
      [] v.t = "list" -> TRUE

\* state.get(key)
Get(st, key) == IF key \in DOMAIN st THEN st[key] ELSE NoneV

\* demo_multiple_interrupts_in_one_node_caution: the name is asked for only
\* when the state holds none, then the age likewise; i counts the
\* interrupt(...) calls the execution has made.
\* (variant: each call site has its own slot, 1 for the name and 2 for the
\* age, whether or not the other call was made)
caution_human_node_by_site(st, rv) ==
    IF ~Truthy(Get(st, "name")) /\ Len(rv) < 1
    THEN Intr([k |-> "what is your name?", v |-> NoneV])
    ELSE IF ~Truthy(Get(st, "age")) /\ Len(rv) < 2
    THEN Intr([k |-> "what is your age?", v |-> NoneV])
    ELSE Done([age |-> IF Truthy(Get(st, "age")) THEN StrV("N/A") ELSE rv[2],
               name |-> IF Truthy(Get(st, "name")) THEN StrV("N/A") ELSE rv[1]], {})

caution_human_node(st, rv) ==
    LET askName == ~Truthy(Get(st, "name"))
        askAge == ~Truthy(Get(st, "age"))
        i == IF askName THEN 1 ELSE 0
        j == IF askAge THEN i + 1 ELSE i
    IN IF askName /\ i > Len(rv) THEN Intr([k |-> "what is your name?", v |-> NoneV])
       ELSE IF askAge /\ j > Len(rv) THEN Intr([k |-> "what is your age?", v |-> NoneV])
       ELSE Done([age |-> IF askAge THEN rv[j] ELSE StrV("N/A"),
                  name |-> IF askName THEN rv[i] ELSE StrV("N/A")], {})

\* demo_approve_or_reject_minimal
\* (variant: only the value True approves)
human_approval_is_true(st, rv) ==
    IF "llm_output" \notin DOMAIN st THEN Err("KeyError")
    ELSE IF Len(rv) = 0 THEN Intr([k |-> "Is this correct?", v |-> st["llm_output"]])
    ELSE Done(EmptyState, {IF rv[1] = BoolV(TRUE) THEN "some_node" ELSE "another_node"})

human_approval(st, rv) ==
    IF "llm_output" \notin DOMAIN st THEN Err("KeyError")
    ELSE IF Len(rv) = 0 THEN Intr([k |-> "Is this correct?", v |-> st["llm_output"]])
    ELSE Done(EmptyState, {IF Truthy(rv[1]) THEN "some_node" ELSE "another_node"})

some_node(st) == Done(st, {})

another_node(st) == Done(st, {})

\* demo_approve_or_reject_extended
generate_llm_output(st) == Done([llm_output |-> StrV("This is the generated output.")], {})

ext_human_approval(st, rv) ==
    IF "llm_output" \notin DOMAIN st THEN Err("KeyError")
    ELSE IF Len(rv) = 0
    THEN Intr([k |-> "Do you approve the following output?", v |-> st["llm_output"]])
    ELSE IF rv[1] = StrV("approve")
    THEN Done([decision |-> StrV("approved")], {"approved_path"})
    ELSE Done([decision |-> StrV("rejected")], {"rejected_path"})

approved_node(st) == Done(st, {})

rejected_node(st) == Done(st, {})

\* build_a_custom_workflow.py: the messages of the tool chatbot.
HumanMessage(c) == [role |-> "user", content |-> c, tool_calls |-> <<>>, tool_call_id |-> ""]
AIMessage(calls) == [role |-> "ai", content |-> "", tool_calls |-> calls, tool_call_id |-> ""]
ToolMessage(name, id) ==
    [role |-> "tool", content |-> "result", name |-> name, tool_call_id |-> id]

ToolCall(name, id) == [name |-> name, id |-> id]

\* What llm_with_tools.invoke can answer: a final message, or a message
\* with one or two calls of the bound tool.
ToolChatChoices == {"final", "one_call", "two_calls"}

LLMAnswer(llm) ==
    CASE llm = "final" -> AIMessage(<<>>)
      [] llm = "one_call" -> AIMessage(<<ToolCall("tavily_search", "call_a")>>)
      [] llm = "two_calls" -> AIMessage(<<ToolCall("tavily_search", "call_b"),
                                          ToolCall("tavily_search", "call_c")>>)

\* route_tools: "tools" when the last message has tool calls, END otherwise.
route_tools(st) ==
    IF "messages" \notin DOMAIN st \/ Len(st["messages"]) = 0 THEN "ValueError"
    ELSE LET ai_message == st["messages"][Len(st["messages"])]
         IN IF "tool_calls" \in DOMAIN ai_message /\ Len(ai_message.tool_calls) > 0
            THEN "tools" ELSE END

\* chatbot_node, followed by the conditional edges {"tools": "tools", END: END}
\* on the state with the node's message appended.
chatbot_node(st, llm) ==
    IF "messages" \notin DOMAIN st THEN Err("KeyError")
    ELSE LET upd == [messages |-> <<LLMAnswer(llm)>>]
             to == route_tools([messages |-> st["messages"] \o upd.messages])
         IN IF to = "ValueError" THEN Err("ValueError")
            ELSE Done(upd, IF to = "tools" THEN {"tools"} ELSE {})

\* BasicToolNode.__call__
\* (variant: only the first tool call is run)
BasicToolNode_first_call_only(inputs) ==
    IF "messages" \notin DOMAIN inputs \/ Len(inputs["messages"]) = 0 THEN Err("ValueError")
    ELSE LET message == inputs["messages"][Len(inputs["messages"])]
         IN Done([messages |->
                     [i \in 1..(IF Len(message.tool_calls) > 0 THEN 1 ELSE 0) |->
                         ToolMessage(message.tool_calls[i].name, message.tool_calls[i].id)]],
                 {})

BasicToolNode(inputs) ==
    IF "messages" \notin DOMAIN inputs \/ Len(inputs["messages"]) = 0 THEN Err("ValueError")
    ELSE LET message == inputs["messages"][Len(inputs["messages"])]
         IN Done([messages |->
                     [i \in 1..Len(message.tool_calls) |->
                         ToolMessage(message.tool_calls[i].name, message.tool_calls[i].id)]],
                 {})

\* Which nodes consult the language model for a choice.
AsksLLM(d, n) == (d \in {"book", "wrap"} /\ n = "agent") \/ (d = "toolchat" /\ n = "chatbot")

NodeFn(d, n, st, rv, llm) ==
    CASE d = "interrupt" -> human_node(st, rv)
      [] d = "chat" -> call_model(st)
      [] d = "validate" -> validate_human_node(st, rv)
      [] d = "edit" /\ n = "generate_summary" -> generate_summary(st)
      [] d = "edit" /\ n = "human_review_edit" -> human_review_edit(st, rv)
      [] d = "edit" /\ n = "downstream_use" -> downstream_use(st)
      [] d = "multi" /\ n = "human_node_1" -> human_node_1(st, rv)
      [] d = "multi" /\ n = "human_node_2" -> human_node_2(st, rv)
      [] d = "book" /\ n = "agent" -> agent(st, llm)
      [] d = "book" /\ n = "tools" -> book_hotel(HotelName, rv)
      [] d = "steps" /\ n = "step_1" -> step_1(st)
      [] d = "steps" /\ n = "step_2" -> step_2(st)
      [] d = "steps" /\ n = "step_3" -> step_3(st)
      [] d = "fx_after" -> fx_human_node(st, rv)
      [] d = "fx_node" /\ n = "human_node" -> sep_human_node(st, rv)
      [] d = "fx_node" /\ n = "api_call_node" -> api_call_node(st)
      [] d = "caution" -> caution_human_node(st, rv)
      [] d = "validate_ext" /\ n = "get_valid_age" -> get_valid_age(st, rv)
      [] d = "validate_ext" /\ n = "report_age" -> report_age(st)
      [] d = "wrap" /\ n = "agent" -> agent(st, llm)
      [] d = "wrap" /\ n = "tools" -> call_tool_with_interrupt(HotelName, rv)
      [] d = "toolchat" /\ n = "chatbot" -> chatbot_node(st, llm)
      [] d = "toolchat" /\ n = "tools" -> BasicToolNode(st)
      [] d = "approve" /\ n = "human_approval" -> human_approval(st, rv)
      [] d = "approve" /\ n = "some_node" -> some_node(st)
      [] d = "approve" /\ n = "another_node" -> another_node(st)
      [] d = "approve_ext" /\ n = "generate_llm_output" -> generate_llm_output(st)
      [] d = "approve_ext" /\ n = "human_approval" -> ext_human_approval(st, rv)
      [] d = "approve_ext" /\ n = "approved_path" -> approved_node(st)
      [] d = "approve_ext" /\ n = "rejected_path" -> rejected_node(st)

(***************************************************************************)
(* What the drivers pass to invoke and to Command(resume=...).             *)
(***************************************************************************)
InvokeInputs(d) ==
    CASE d = "interrupt" -> {[some_text |-> StrV("original text")]}
      [] d = "chat" -> {[messages |-> <<UserMsg(c)>>] : c \in {"u1", "u2"}}
      [] d = "validate" -> {EmptyState}
      [] d = "edit" -> {EmptyState}
      [] d = "multi" -> {[text_1 |-> StrV("t1"), text_2 |-> StrV("t2")]}
      [] d = "book" -> {[messages |-> <<UserMsg("book a stay at McKittrick hotel")>>]}
      [] d = "steps" -> {[input |-> StrV("hello")]}
      [] d = "fx_after" -> {EmptyState}
      [] d = "fx_node" -> {EmptyState}
      [] d = "caution" -> {[age |-> NoneV, name |-> NoneV]}
      [] d = "validate_ext" -> {EmptyState}
      [] d = "approve" -> {[llm_output |-> StrV("demo")]}
      [] d = "toolchat" -> {[messages |-> <<HumanMessage("hello")>>]}
      [] d = "wrap" -> {[messages |-> <<UserMsg("book a stay at McKittrick hotel")>>]}
      [] d = "approve_ext" -> {EmptyState}

ResumeInputs(d) ==
    CASE d = "interrupt" -> {StrV("Edited text"), StrV("other text"), IntV(42)}
      [] d = "chat" -> {StrV("Edited text")}
      [] d = "validate" -> {StrV("not a number"), IntV(-10), IntV(25), IntV(0)}
      [] d = "edit" -> {DictV("edited_summary", "edited"), DictV("edited_summary", "rewritten"),
                        DictV("edited_text", "edited"), StrV("edited")}
      [] d = "multi" -> {StrV("edited for t1"), StrV("edited for t2")}
      [] d = "book" -> {Resp("accept", ""), Resp("edit", "Ritz"), Resp("edit", ""),
                        Resp("reject", ""), StrV("accept")}
      [] d = "steps" -> {NoneV}
      [] d = "fx_after" -> {StrV("Alice"), StrV("Bob")}
      [] d = "fx_node" -> {StrV("Alice"), StrV("Bob")}
      [] d = "caution" -> {StrV("John"), StrV("30")}
      [] d = "validate_ext" -> {StrV("not a number"), StrV("-10"), StrV("25"), IntV(0),
                                NoneV}
      [] d = "approve" -> {BoolV(TRUE), BoolV(FALSE), StrV("no"), StrV("")}
      [] d = "toolchat" -> {}
      [] d = "wrap" -> {ListV(Resp("accept", "")), ListV(Resp("edit", "Ritz")),
                        ListV(Resp("response", "No booking, please.")),
                        ListV(Resp("reject", "")), Resp("accept", "")}
      [] d = "approve_ext" -> {StrV("approve"), StrV("reject"), StrV("Approve"), BoolV(TRUE)}

\* The state updates the drivers pass along with a resume value:
\* Command(resume=..., update=...).
UpdateInputs(d) ==
    IF d = "caution" THEN {[name |-> StrV("foo")], [age |-> StrV("40")]} ELSE {}

(***************************************************************************)
(* The checkpoint store.                                                   *)
(***************************************************************************)
Checkpoint(seq, st, next, pending) ==
    [seq |-> seq, state |-> st, next |-> next, pending |-> pending]

\* (variant: the resume that follows a pause is counted as a step of its own)
NextSeq_counts_resume(log) ==
    IF log = <<>> THEN 1
    ELSE log[Len(log)].seq + (IF log[Len(log)].pending # {} THEN 2 ELSE 1)

NextSeq(log) == IF log = <<>> THEN 1 ELSE log[Len(log)].seq + 1

\* (variant: a checkpoint written after a pause replaces the paused one)
Put_replaces_paused(st, thread, cp) ==
    [st EXCEPT ![thread] =
        IF @ # <<>> /\ @[Len(@)].pending # {}
        THEN Append(SubSeq(@, 1, Len(@) - 1), cp)
        ELSE Append(@, cp)]

Put(st, thread, cp) == [st EXCEPT ![thread] = Append(@, cp)]

DeleteThread(st, thread) == [st EXCEPT ![thread] = <<>>]

\* (variant: the clean-up is handed a fixed thread id)
DeleteTarget_fixed(s) == "s1"

\* The thread the driver's clean-up names: the one it ran on.
DeleteTarget(s) == ThreadOf(s)

Log(s) == store[ThreadOf(s)]

Latest(s) == Log(s)[Len(Log(s))]

(***************************************************************************)
(* State updates: a field of the update overwrites the state's, or is      *)
(* appended to it when the field has the add_messages reducer.             *)
(***************************************************************************)
Merge(d, st, upd) ==
    [f \in DOMAIN st \cup DOMAIN upd |->
        IF f \notin DOMAIN upd THEN st[f]
        ELSE IF f \in Appended(d) /\ f \in DOMAIN st THEN st[f] \o upd[f]
        ELSE upd[f]]

RECURSIVE ApplyAll(_, _, _)
ApplyAll(d, st, ws) ==
    IF ws = {} THEN st
    ELSE LET w == CHOOSE x \in ws : TRUE
         IN ApplyAll(d, Merge(d, st, w.res.update), ws \ {w})

\* Where a completed task sends the run: its Command targets and its edges.
Targets(d, w) == w.res.goto \cup Graph(d).edges[w.node]

NoResult == [kind |-> "none", pending |-> {}, state |-> EmptyState, err |-> ""]

NoResumes(d) == [n \in Graph(d).nodes |-> <<>>]

PendingNodes(s) == IF Log(s) = <<>> THEN {} ELSE {p.node : p \in Latest(s).pending}

\* The parent / subgraph demo has not been started on the session.
NotStarted == [pc |-> "none", entered |-> <<>>, resumed |-> FALSE]

\* The thread holds no checkpoint of the parent graph or of the subgraph.
NoLogs == [parent |-> <<>>, sub |-> <<>>]

\* No run_* function has been called.
NoCall ==
    [top |-> "", env |-> <<>>, idx |-> 0, phase |-> "idle", invoked |-> 0, calls |-> <<>>,
     results |-> <<>>, returned |-> <<>>, raised |-> ""]

\* No graph is under construction.
NoBuilder ==
    [script |-> <<>>, pc |-> 1, nodes |-> {}, dest |-> {}, edges |-> {}, status |-> "building"]

\* No history sequence is being iterated.
NoIteration ==
    [s |-> "s1", pass |-> 0, pos |-> 0, seen |-> <<>>, first |-> <<>>, snap |-> <<>>,
     dirty |-> FALSE]

(***************************************************************************)
(* Initially no session exists.                                            *)
(***************************************************************************)
InitSessions ==
    /\ store = [t \in Sessions |-> <<>>]
    /\ status = [s \in Sessions |-> "NONE"]
    /\ writes = [s \in Sessions |-> {}]
    /\ resumeVals = [s \in Sessions |-> NoResumes(demo)]
    /\ result = [s \in Sessions |-> NoResult]
    /\ trace = [s \in Sessions |-> <<>>]
    /\ mark = [s \in Sessions |-> 0]
    /\ ops = [s \in Sessions |-> <<>>]
    /\ effects = [s \in Sessions |-> <<>>]

InitRun == demo \in Demos /\ InitSessions

\* Nothing but the run of the graphs is under way.
InitOthers ==
    /\ iter = NoIteration
    /\ builder = NoBuilder
    /\ running = [s \in Sessions |-> {}]
    /\ nested = [s \in Sessions |-> NotStarted]
    /\ subStore = [t \in Sessions |-> NoLogs]
    /\ writing = [t \in Sessions |-> {}]
    /\ py = NoCall

Init == InitRun /\ InitOthers

\* (variant: a failed session can be invoked again)
Invoke_retries_failed(s, input) ==
    /\ status[s] \in {"NONE", "FAILED"} \/ (status[s] = "COMPLETED" /\ MultiTurn(demo))
    /\ Len(Log(s)) < MaxSeq
    /\ LET base == IF Log(s) = <<>> THEN EmptyState ELSE Latest(s).state
       IN store' = Put(store, ThreadOf(s),
                       Checkpoint(NextSeq(Log(s)), Merge(demo, base, input),
                                  Graph(demo).start, {}))
    /\ status' = [status EXCEPT ![s] = "RUNNING"]
    /\ writes' = [writes EXCEPT ![s] = {}]
    /\ resumeVals' = [resumeVals EXCEPT ![s] = NoResumes(demo)]
    /\ result' = [result EXCEPT ![s] = NoResult]
    /\ trace' = [trace EXCEPT ![s] = <<>>]
    /\ mark' = [mark EXCEPT ![s] = 0]
    /\ ops' = [ops EXCEPT ![s] =
                 Append(IF status[s] = "NONE" THEN <<>> ELSE @,
                        [op |-> "invoke", arg |-> input])]
    /\ UNCHANGED <<demo, effects>>
    /\ UNCHANGED others

(***************************************************************************)
(* graph.invoke(input, config): the input is merged into the thread's      *)
(* latest state, the input checkpoint is written and the start nodes are   *)
(* scheduled.                                                              *)
(***************************************************************************)
Invoke(s, input) ==
    /\ status[s] = "NONE" \/ (status[s] = "COMPLETED" /\ MultiTurn(demo))
    /\ Len(Log(s)) < MaxSeq
    /\ LET base == IF Log(s) = <<>> THEN EmptyState ELSE Latest(s).state
       IN store' = Put(store, ThreadOf(s),
                       Checkpoint(NextSeq(Log(s)), Merge(demo, base, input),
                                  Graph(demo).start, {}))
    /\ status' = [status EXCEPT ![s] = "RUNNING"]
    /\ writes' = [writes EXCEPT ![s] = {}]
    /\ resumeVals' = [resumeVals EXCEPT ![s] = NoResumes(demo)]
    /\ result' = [result EXCEPT ![s] = NoResult]
    /\ trace' = [trace EXCEPT ![s] = <<>>]
    /\ mark' = [mark EXCEPT ![s] = 0]
    /\ ops' = [ops EXCEPT ![s] =
                 Append(IF status[s] = "NONE" THEN <<>> ELSE @,
                        [op |-> "invoke", arg |-> input])]
    /\ UNCHANGED <<demo, effects>>
    /\ UNCHANGED others

(***************************************************************************)
(* One task of the current superstep runs node n on the state of the       *)
(* latest checkpoint.  An exception ends the run without a checkpoint.     *)
(***************************************************************************)
ExecCore(s, n, llm) ==
    /\ status[s] = "RUNNING"
    /\ Log(s) # <<>>
    /\ Len(Log(s)) < MaxSeq
    /\ n \in Latest(s).next
    /\ n \notin {w.node : w \in writes[s]}
    /\ LET r == NodeFn(demo, n, Latest(s).state, resumeVals[s][n], llm)
       IN /\ IF r.kind = "error"
             THEN /\ status' = [status EXCEPT ![s] = "FAILED"]
                  /\ result' = [result EXCEPT ![s] =
                                  [kind |-> "FAILED", pending |-> {},
                                   state |-> Latest(s).state, err |-> r.payload.k]]
                  /\ UNCHANGED writes
             ELSE /\ writes' = [writes EXCEPT ![s] = @ \cup {[node |-> n, res |-> r]}]
                  /\ UNCHANGED <<status, result>>
    /\ trace' = [trace EXCEPT ![s] = Append(@, n)]
    /\ ops' = [ops EXCEPT ![s] =
                 IF AsksLLM(demo, n)
                 THEN Append(@, [op |-> "llm", arg |-> [choice |-> StrV(llm)]])
                 ELSE @]
    /\ effects' = [effects EXCEPT ![s] =
                     @ \o NodeFn(demo, n, Latest(s).state, resumeVals[s][n], llm).fx]
    /\ UNCHANGED <<demo, store, resumeVals, mark>>

ExecNode(s, n, llm) == ExecCore(s, n, llm) /\ UNCHANGED others

(***************************************************************************)
(* All tasks of the superstep have run.  If one interrupted, the run       *)
(* pauses: the checkpoint keeps the state and the scheduled nodes and      *)
(* records the pending interrupts.  Otherwise the updates are applied, the *)
(* next nodes are scheduled and the checkpoint is written; the run also    *)
(* pauses, without a payload, before a node named in interrupt_before.     *)
(***************************************************************************)
EndStep(s) ==
    /\ status[s] = "RUNNING"
    /\ Log(s) # <<>>
    /\ Latest(s).next # {}
    /\ Latest(s).next = {w.node : w \in writes[s]}
    /\ LET cp == Latest(s)
           intr == {w \in writes[s] : w.res.kind = "interrupt"}
           pend == {[node |-> w.node, payload |-> w.res.payload] : w \in intr}
           st == ApplyAll(demo, cp.state, writes[s])
           next == UNION {Targets(demo, w) : w \in writes[s]}
       IN IF intr # {}
          THEN /\ store' = Put(store, ThreadOf(s),
                               Checkpoint(NextSeq(Log(s)), cp.state, cp.next, pend))
               /\ status' = [status EXCEPT ![s] = "PAUSED"]
               /\ result' = [result EXCEPT ![s] =
                               [kind |-> "PAUSED", pending |-> pend,
                                state |-> cp.state, err |-> ""]]
               /\ UNCHANGED <<writes, resumeVals>>
          ELSE /\ store' = Put(store, ThreadOf(s),
                               Checkpoint(NextSeq(Log(s)), st, next, {}))
               /\ status' = [status EXCEPT ![s] =
                               IF next = {} THEN "COMPLETED"
                               ELSE IF next \cap InterruptBefore(demo) # {} THEN "PAUSED"
                               ELSE "RUNNING"]
               /\ result' = [result EXCEPT ![s] =
                               IF next = {}
                               THEN [kind |-> "COMPLETED", pending |-> {},
                                     state |-> st, err |-> ""]
                               ELSE IF next \cap InterruptBefore(demo) # {}
                               THEN [kind |-> "PAUSED", pending |-> {},
                                     state |-> st, err |-> ""]
                               ELSE @]
               /\ writes' = [writes EXCEPT ![s] = {}]
               /\ resumeVals' = [resumeVals EXCEPT ![s] = NoResumes(demo)]
    /\ UNCHANGED <<demo, trace, mark, ops, effects>>
    /\ UNCHANGED others

(***************************************************************************)
(* graph.invoke(Command(resume=rv), config) on a paused session: each      *)
(* interrupted task is handed its value and scheduled again; the tasks     *)
(* that completed keep their results.                                      *)
(***************************************************************************)
Resume(s, rv) ==
    /\ status[s] = "PAUSED"
    /\ Log(s) # <<>>
    /\ Len(Log(s)) < MaxSeq
    /\ DOMAIN rv = PendingNodes(s)
    /\ resumeVals' = [resumeVals EXCEPT ![s] =
                        [n \in Graph(demo).nodes |->
                            IF n \in DOMAIN rv THEN Append(@[n], rv[n]) ELSE @[n]]]
    /\ writes' = [writes EXCEPT ![s] = {w \in @ : w.res.kind # "interrupt"}]
    /\ status' = [status EXCEPT ![s] = "RUNNING"]
    /\ result' = [result EXCEPT ![s] = NoResult]
    /\ mark' = [mark EXCEPT ![s] = Len(trace[s])]
    /\ ops' = [ops EXCEPT ![s] = Append(@, [op |-> "resume", arg |-> rv])]
    /\ UNCHANGED <<demo, store, trace, effects>>
    /\ UNCHANGED others

\* (variant: resuming an absent session starts it)
ResumeAbsent_recreates(s, v) ==
    /\ Log(s) = <<>>
    /\ status[s] = "NONE"
    /\ store' = Put(store, ThreadOf(s), Checkpoint(1, EmptyState, Graph(demo).start, {}))
    /\ status' = [status EXCEPT ![s] = "RUNNING"]
    /\ UNCHANGED <<demo, writes, resumeVals, result, trace, mark, ops, effects>>
    /\ UNCHANGED others

(***************************************************************************)
(* resume on a session the store does not hold.                            *)
(***************************************************************************)
ResumeAbsent(s, v) ==
    /\ Log(s) = <<>>
    /\ status[s] = "NONE"
    /\ result' = [result EXCEPT ![s] =
                    [kind |-> "SessionNotFoundError", pending |-> {},
                     state |-> EmptyState, err |-> "SessionNotFoundError"]]
    /\ UNCHANGED <<demo, store, status, writes, resumeVals, trace, mark, ops, effects>>
    /\ UNCHANGED others

(***************************************************************************)
(* checkpointer.delete_thread(thread_id), between the driver's calls.      *)
(***************************************************************************)
DeleteSession(s) ==
    /\ status[s] # "RUNNING"
    /\ store' = DeleteThread(store, DeleteTarget(s))
    /\ status' = [status EXCEPT ![s] = "NONE"]
    /\ writes' = [writes EXCEPT ![s] = {}]
    /\ resumeVals' = [resumeVals EXCEPT ![s] = NoResumes(demo)]
    /\ result' = [result EXCEPT ![s] = NoResult]
    /\ trace' = [trace EXCEPT ![s] = <<>>]
    /\ mark' = [mark EXCEPT ![s] = 0]
    /\ ops' = [ops EXCEPT ![s] = <<[op |-> "delete", arg |-> EmptyState]>>]
    /\ effects' = [effects EXCEPT ![s] = <<>>]
    /\ UNCHANGED demo
    /\ UNCHANGED others

Next ==
    \/ \E s \in Sessions, input \in InvokeInputs(demo) : Invoke(s, input)
    \/ \E s \in Sessions, n \in Graph(demo).nodes :
          \E llm \in (IF AsksLLM(demo, n) THEN LLMChoices ELSE {"none"}) : ExecNode(s, n, llm)
    \/ \E s \in Sessions : EndStep(s)
    \/ \E s \in Sessions :
          \E rv \in [PendingNodes(s) -> ResumeInputs(demo)] : Resume(s, rv)
    \/ \E s \in Sessions, v \in ResumeInputs(demo) : ResumeAbsent(s, v)
    \/ \E s \in Sessions : DeleteSession(s)

Spec == Init /\ [][Next]_vars

(***************************************************************************)
(* Properties.                                                             *)
(***************************************************************************)
LastOp(s) == ops[s][Len(ops[s])]

\* The caller is back from its call on s: the run is not in progress.
Returned(s) == status[s] # "RUNNING"

\* The value the last resume handed to node n.
LastResume(s, n) == LastOp(s).arg[n]

\* C1: in the single-node interrupt graph, invoke returns PAUSED reporting
\* the payload the start node raised, and the following resume(s, v)
\* returns COMPLETED with v in the field the interrupting node writes.
C1_InterruptThenResume ==
    demo = "interrupt" =>
        \A s \in Sessions :
            /\ (Len(ops[s]) = 1 /\ ops[s][1].op = "invoke" /\ Returned(s)) =>
                  /\ result[s].kind = "PAUSED"
                  /\ result[s].pending =
                        {[node |-> "human_node",
                          payload |-> [k |-> "text_to_revise",
                                       v |-> ops[s][1].arg["some_text"]]]}
            /\ (Len(ops[s]) = 2 /\ ops[s][2].op = "resume" /\ Returned(s)) =>
                  /\ result[s].kind = "COMPLETED"
                  /\ result[s].state = [some_text |-> LastResume(s, "human_node")]

C1_Witness ==
    /\ demo = "interrupt"
    /\ \E s \in Sessions :
          /\ Len(ops[s]) = 2
          /\ ops[s][2].op = "resume"
          /\ result[s].kind = "COMPLETED"
          /\ result[s].state = [some_text |-> IntV(42)]

\* C2: the sequence numbers of a session's checkpoints are strictly
\* increasing with no gaps: each checkpoint's number follows the number of
\* the checkpoint written before it by exactly one, across invoke and any
\* number of resume calls.
C2_GaplessSequence ==
    \A t \in Sessions :
        \A i \in 2..Len(store[t]) : store[t][i].seq = store[t][i - 1].seq + 1

C2_Witness ==
    /\ demo = "chat"
    /\ \E t \in Sessions : Len(store[t]) >= 6

\* The operations of s before its last one.
Before(s) == SubSeq(ops[s], 1, Len(ops[s]) - 1)

\* C3: in the validation graph the age of a completed run is the value of
\* the resume call that completed it, and two sessions that were resumed
\* from the same history with different values end in different states.
C3_NoStaleResume ==
    demo = "validate" =>
        /\ \A s \in Sessions :
              status[s] = "COMPLETED" =>
                  result[s].state = [age |-> LastResume(s, "human_node")]
        /\ \A s, t \in Sessions :
              (/\ status[s] = "COMPLETED"
               /\ status[t] = "COMPLETED"
               /\ Before(s) = Before(t)
               /\ LastResume(s, "human_node") # LastResume(t, "human_node"))
              => result[s].state # result[t].state

C3_Witness ==
    /\ demo = "validate"
    /\ \E s, t \in Sessions :
          /\ status[s] = "COMPLETED"
          /\ status[t] = "COMPLETED"
          /\ Len(ops[s]) >= 3
          /\ Before(s) = Before(t)
          /\ LastResume(s, "human_node") # LastResume(t, "human_node")
          /\ result[s].state # result[t].state

\* What ops holds right after deleteSession.
DeletedOps == <<[op |-> "delete", arg |-> EmptyState]>>

\* C4: after deleteSession(s) a resume of s fails with SessionNotFoundError
\* whatever the value; the failed resume writes no checkpoint and leaves the
\* session absent; only an invoke brings the session back.
C4_ResumeAfterDelete ==
    [][\A s \in Sessions :
          ops[s] = DeletedOps =>
              /\ \A v \in ResumeInputs(demo) : ENABLED ResumeAbsent(s, v)
              /\ ops'[s] = ops[s] =>
                    /\ store'[ThreadOf(s)] = <<>>
                    /\ status'[s] = "NONE"
                    /\ result'[s].kind \in {"none", "SessionNotFoundError"}
              /\ ops'[s] # ops[s] => ops'[s][Len(ops'[s])].op = "invoke"]_vars

C4_Witness ==
    \E s \in Sessions :
        /\ ops[s] = DeletedOps
        /\ result[s].kind = "SessionNotFoundError"
        /\ Log(s) = <<>>
        /\ status[s] = "NONE"

\* C5: two sessions on the same graph and store do not interfere: a step
\* that changes one session's history, state or result leaves the other
\* session's unchanged, and whenever both sessions are back from the same
\* operations they hold the same history, whatever the interleaving.
C5_Independent ==
    [][/\ \A s, t \in Sessions :
             (s # t /\ (store'[ThreadOf(s)] # store[ThreadOf(s)] \/ status'[s] # status[s]
                          \/ result'[s] # result[s])) =>
                 /\ store'[ThreadOf(t)] = store[ThreadOf(t)]
                 /\ status'[t] = status[t]
                 /\ result'[t] = result[t]
       /\ \A s, t \in Sessions :
             (status'[s] # "RUNNING" /\ status'[t] # "RUNNING" /\ ops'[s] = ops'[t]) =>
                 /\ store'[ThreadOf(s)] = store'[ThreadOf(t)]
                 /\ status'[s] = status'[t]
                 /\ status'[s] # "NONE" => result'[s] = result'[t]]_vars

C5_Witness ==
    /\ demo = "chat"
    /\ Len(Log("s1")) >= 4
    /\ Len(Log("s2")) >= 4
    /\ Log("s1") # Log("s2")
    /\ status["s1"] = "COMPLETED"
    /\ status["s2"] = "COMPLETED"

\* A review response book_hotel completes on.
Accepted(v) == HasKey(v, "type") /\ (v.s = "accept" \/ (v.s = "edit" /\ v.a # ""))

\* C6: a node that raises takes the session from RUNNING to FAILED; the
\* failing step writes no checkpoint and reports FAILED to the caller; a
\* failed session runs no node and writes no checkpoint again, and its log
\* stays as it was.  book_hotel raises on every response it does not accept.
C6_FailureKeepsCheckpoints ==
    [][\A s \in Sessions :
          /\ (status[s] # "FAILED" /\ status'[s] = "FAILED") =>
                /\ status[s] = "RUNNING"
                /\ store'[ThreadOf(s)] = store[ThreadOf(s)]
                /\ result'[s].kind = "FAILED"
          /\ (status[s] = "FAILED" /\ status'[s] = "FAILED") =>
                /\ store'[ThreadOf(s)] = store[ThreadOf(s)]
                /\ trace'[s] = trace[s]
                /\ result'[s] = result[s]
          /\ status[s] = "FAILED" => status'[s] # "RUNNING"
          /\ (/\ demo = "book"
              /\ status[s] = "RUNNING"
              /\ LastOp(s).op = "resume"
              /\ ~Accepted(LastResume(s, "tools"))
              /\ trace'[s] # trace[s]) =>
                /\ status'[s] = "FAILED"
                /\ result'[s].err \in {"ValueError", "KeyError", "TypeError"}]_vars

C6_Witness ==
    /\ demo = "book"
    /\ \E s \in Sessions :
          /\ status[s] = "FAILED"
          /\ result[s].err = "ValueError"
          /\ Len(Log(s)) >= 3

Four == {"RUNNING", "PAUSED", "COMPLETED", "FAILED"}

Listed == {<<"RUNNING", "PAUSED">>, <<"PAUSED", "RUNNING">>,
           <<"RUNNING", "COMPLETED">>, <<"RUNNING", "FAILED">>}

\* The controller's transitions of one step, the changes of state among them
\* being those of allowed.
Transitions(allowed) ==
    \A s \in Sessions :
        /\ store'[ThreadOf(s)] # <<>> => status'[s] \in Four
        /\ (status[s] = "NONE" /\ status'[s] # "NONE") =>
              /\ status'[s] = "RUNNING"
              /\ ops'[s][Len(ops'[s])].op = "invoke"
        /\ (status[s] \in Four /\ status'[s] \in Four /\ status'[s] # status[s]) =>
              <<status[s], status'[s]>> \in allowed
        /\ (status[s] = "PAUSED" /\ status'[s] = "RUNNING") =>
              /\ Len(ops'[s]) = Len(ops[s]) + 1
              /\ ops'[s][Len(ops'[s])].op = "resume"

\* C7 as stated: the only transitions are the four listed ones, so that
\* COMPLETED and FAILED are never left for another controller state.
C7_OnlyListedTransitions == [][Transitions(Listed)]_vars

\* C7 (amended): the controller state of an existing session is one of the
\* four; a session starts in RUNNING on invoke; the transitions are the four
\* listed ones and COMPLETED -> RUNNING, taken only by a new invoke on the
\* same session; FAILED is never left for another controller state and
\* PAUSED is left for RUNNING only by a resume call.
C7_TransitionsWithReinvoke ==
    [][/\ Transitions(Listed \cup {<<"COMPLETED", "RUNNING">>})
       /\ \A s \in Sessions :
             (status[s] = "COMPLETED" /\ status'[s] = "RUNNING") =>
                 /\ Len(ops'[s]) = Len(ops[s]) + 1
                 /\ ops'[s][Len(ops'[s])].op = "invoke"]_vars

C7_Witness ==
    /\ demo = "chat"
    /\ \E s \in Sessions :
          /\ Len(ops[s]) = 2
          /\ ops[s][2].op = "invoke"
          /\ status[s] = "COMPLETED"
          /\ Len(Log(s)) = 4

Count(seq, x) == Cardinality({i \in 1..Len(seq) : seq[i] = x})

IsPrefix(a, b) == Len(a) <= Len(b) /\ a = SubSeq(b, 1, Len(a))

\* The nodes entered since the last resume.
AfterResume(s) == SubSeq(trace[s], mark[s] + 1, Len(trace[s]))

\* C8: in the edit graph, a resume of the session paused in
\* human_review_edit re-enters that node with the resume value and goes on
\* to downstream_use; generate_summary, which completed before the pause,
\* is not executed again.
C8_ResumeReentersPausedNode ==
    demo = "edit" =>
        \A s \in Sessions :
            (ops[s] # <<>> /\ LastOp(s).op = "resume") =>
                /\ IsPrefix(AfterResume(s), <<"human_review_edit", "downstream_use">>)
                /\ Count(trace[s], "generate_summary") = 1
                /\ status[s] = "COMPLETED" =>
                      /\ AfterResume(s) = <<"human_review_edit", "downstream_use">>
                      /\ result[s].state =
                            [summary |-> StrV(LastResume(s, "human_review_edit").s)]

C8_Witness ==
    /\ demo = "edit"
    /\ \E s \in Sessions :
          /\ status[s] = "COMPLETED"
          /\ trace[s] = <<"generate_summary", "human_review_edit",
                          "human_review_edit", "downstream_use">>
          /\ result[s].state = [summary |-> StrV("rewritten")]

\* What holds of a session paused by interrupts raised in its nodes.
HoldsInterrupts(s) ==
    /\ Latest(s).pending # {}
    /\ PendingNodes(s) \subseteq Latest(s).next
    /\ result[s].pending = Latest(s).pending
    /\ \A p \in Latest(s).pending :
          NodeFn(demo, p.node, Latest(s).state, resumeVals[s][p.node], "final")
              = Intr(p.payload)
    /\ (demo = "multi" /\ Len(ops[s]) = 1) =>
          Latest(s).pending =
              {[node |-> "human_node_1",
                payload |-> [k |-> "text_to_revise", v |-> ops[s][1].arg["text_1"]]],
               [node |-> "human_node_2",
                payload |-> [k |-> "text_to_revise", v |-> ops[s][1].arg["text_2"]]]}

\* What holds of a session stopped before a node named in interrupt_before.
HoldsBreakpoint(s) ==
    /\ Latest(s).pending = {}
    /\ result[s].pending = {}
    /\ Latest(s).next \cap InterruptBefore(demo) # {}

\* C9: the latest checkpoint of a session PAUSED by a node's interrupt holds
\* the pending payloads, each raised by a node the checkpoint schedules next
\* (in the two-node graph: both nodes, each with its own text); a session
\* PAUSED before a node named in interrupt_before holds no payload and has
\* that node scheduled next; the latest checkpoint of a COMPLETED session
\* has no pending payload and no next node.
C9_PauseHoldsInterruptOrBreakpoint ==
    \A s \in Sessions :
        /\ status[s] = "PAUSED" =>
              /\ HoldsInterrupts(s) \/ HoldsBreakpoint(s)
              /\ InterruptBefore(demo) = {} => HoldsInterrupts(s)
        /\ status[s] = "COMPLETED" =>
              /\ Latest(s).pending = {}
              /\ Latest(s).next = {}

\* C9 as stated: every PAUSED session's latest checkpoint holds a pending
\* interrupt payload whose node is scheduled next.
C9_PausedCheckpointHoldsInterrupt ==
    \A s \in Sessions :
        /\ status[s] = "PAUSED" =>
              /\ Latest(s).pending # {}
              /\ PendingNodes(s) \subseteq Latest(s).next
              /\ result[s].pending = Latest(s).pending
              /\ \A p \in Latest(s).pending :
                    NodeFn(demo, p.node, Latest(s).state, resumeVals[s][p.node], "final")
                        = Intr(p.payload)
              /\ (demo = "multi" /\ Len(ops[s]) = 1) =>
                    Latest(s).pending =
                        {[node |-> "human_node_1",
                          payload |-> [k |-> "text_to_revise", v |-> ops[s][1].arg["text_1"]]],
                         [node |-> "human_node_2",
                          payload |-> [k |-> "text_to_revise", v |-> ops[s][1].arg["text_2"]]]}
        /\ status[s] = "COMPLETED" =>
              /\ Latest(s).pending = {}
              /\ Latest(s).next = {}

C9_Witness ==
    /\ demo = "multi"
    /\ \E s \in Sessions :
          /\ status[s] = "PAUSED"
          /\ Cardinality(Latest(s).pending) = 2
          /\ Latest(s).next = {"human_node_1", "human_node_2"}

\* C10: the store only appends: in every step a thread's log is unchanged,
\* or extended by one checkpoint with all earlier checkpoints as they were,
\* or emptied by deleteSession.
C10_AppendOnly ==
    [][\A t \in Sessions :
          \/ store'[t] = store[t]
          \/ /\ Len(store'[t]) = Len(store[t]) + 1
             /\ SubSeq(store'[t], 1, Len(store[t])) = store[t]
          \/ /\ store'[t] = <<>>
             /\ \E s \in Sessions : ThreadOf(s) = t /\ ops'[s] = DeletedOps]_vars

C10_Witness ==
    /\ demo = "chat"
    /\ \E t \in Sessions :
          /\ Len(store[t]) >= 5
          /\ Len(store[t][1].state["messages"]) = 1
          /\ Len(store[t][5].state["messages"]) = 5

\* C12: deleteSession removes every checkpoint of its session and none of
\* another session; deleting again, or deleting a session that never
\* existed, is possible and leaves the store as one deletion left it.
C12_DeleteIdempotent ==
    [][\A s \in Sessions :
          /\ status[s] # "RUNNING" => ENABLED DeleteSession(s)
          /\ (ops'[s] = DeletedOps /\ ops[s] # DeletedOps) =>
                /\ store'[ThreadOf(s)] = <<>>
                /\ \A t \in Sessions : t # ThreadOf(s) => store'[t] = store[t]
          /\ (ops[s] = DeletedOps /\ ops'[s] = DeletedOps) => store'[ThreadOf(s)] = <<>>
          /\ LET once == DeleteThread(store, DeleteTarget(s))
             IN /\ DeleteThread(once, DeleteTarget(s)) = once
                /\ once[ThreadOf(s)] = <<>>
                /\ \A t \in Sessions : t # ThreadOf(s) => once[t] = store[t]
                /\ Log(s) = <<>> => once = store]_vars

C12_Witness ==
    \E s, t \in Sessions :
        /\ s # t
        /\ ops[s] = DeletedOps
        /\ Log(s) = <<>>
        /\ Len(Log(t)) >= 2
        /\ status[t] = "PAUSED"

\* C17: a PAUSED session on which the caller issues nothing stays PAUSED
\* with its log, result and trace as they were, whatever the other session
\* does; a log gets shorter only by a deleteSession of its own session.
C17_AbandonedPauseKept ==
    [][\A s \in Sessions :
          /\ (status[s] = "PAUSED" /\ ops'[s] = ops[s]) =>
                /\ status'[s] = "PAUSED"
                /\ store'[ThreadOf(s)] = store[ThreadOf(s)]
                /\ result'[s] = result[s]
                /\ trace'[s] = trace[s]
          /\ Len(store'[ThreadOf(s)]) < Len(store[ThreadOf(s)]) =>
                /\ ops'[s] = DeletedOps
                /\ ops[s] # DeletedOps]_vars

C17_Witness ==
    /\ demo = "steps"
    /\ status["s1"] = "PAUSED"
    /\ Latest("s1").next = {"step_3"}
    /\ trace["s1"] = <<"step_1", "step_2">>
    /\ status["s2"] = "COMPLETED"
    /\ trace["s2"] = <<"step_1", "step_2", "step_3">>

\* C18: in the two side-effect demos the api call is made at most once per
\* session: never by the run that pauses, and exactly once, with the
\* resume value, by the run that resumes and completes.
C18_EffectAtMostOnce ==
    demo \in {"fx_after", "fx_node"} =>
        \A s \in Sessions :
            /\ Len(effects[s]) <= 1
            /\ (\A i \in 1..Len(ops[s]) : ops[s][i].op # "resume") => effects[s] = <<>>
            /\ status[s] = "PAUSED" => effects[s] = <<>>
            /\ status[s] = "COMPLETED" =>
                  /\ LastOp(s).op = "resume"
                  /\ effects[s] = <<LastResume(s, "human_node")>>

C18_Witness ==
    /\ demo = "fx_node"
    /\ \E s \in Sessions :
          /\ status[s] = "COMPLETED"
          /\ trace[s] = <<"human_node", "human_node", "api_call_node">>
          /\ effects[s] = <<StrV("Bob")>>

(***************************************************************************)
(* Reading the store: checkpointer.get_tuple(config) and                   *)
(* checkpointer.list(config), and a caller that walks the listed sequence  *)
(* twice.                                                                  *)
(***************************************************************************)
NoCheckpoint == Checkpoint(0, EmptyState, {}, {})

\* latest: the most recent checkpoint of the thread, or none.
GetTuple(st, thread) ==
    IF st[thread] = <<>> THEN NoCheckpoint
    ELSE LET cps == {st[thread][i] : i \in 1..Len(st[thread])}
         IN CHOOSE c \in cps : \A d \in cps : d.seq <= c.seq

\* history: the thread's checkpoints, oldest first.
List(st, thread) == st[thread]

\* (variant: the sequence is exhausted by its first traversal)
Restart_exhausted(it) ==
    [it EXCEPT !.first = it.seen, !.seen = <<>>, !.pass = 2]

\* Starting over on the same sequence object.
Restart(it) ==
    [it EXCEPT !.first = it.seen, !.seen = <<>>, !.pos = 0, !.pass = 2]

OpenHistory(s) ==
    /\ iter.pass \in {0, 3}
    /\ iter' = [s |-> s, pass |-> 1, pos |-> 0, seen |-> <<>>, first |-> <<>>,
                snap |-> List(store, ThreadOf(s)), dirty |-> FALSE]
    /\ UNCHANGED <<runVars, builder, running, nested, subStore, writing, py>>

\* The sequence is lazy: an element is read from the store when it is asked
\* for.  A traversal that meets a write to the session is given up.
NextItem ==
    /\ iter.pass \in {1, 2}
    /\ LET h == List(store, ThreadOf(iter.s))
       IN iter' = IF h # iter.snap
                  THEN [NoIteration EXCEPT !.s = iter.s, !.pass = 3, !.dirty = TRUE]
                  ELSE IF iter.pos < Len(h)
                  THEN [iter EXCEPT !.seen = Append(@, h[iter.pos + 1]), !.pos = @ + 1]
                  ELSE IF iter.pass = 1 THEN Restart(iter)
                  ELSE [iter EXCEPT !.pass = 3]
    /\ UNCHANGED <<runVars, builder, running, nested, subStore, writing, py>>

InitInspect == Init /\ demo = "chat"

\* The session whose store is read while it runs.
Inspected == {"s1"}

NextInspect ==
    \/ \E s \in Inspected, input \in InvokeInputs(demo) : Invoke(s, input)
    \/ \E s \in Inspected, n \in Graph(demo).nodes : ExecNode(s, n, "none")
    \/ \E s \in Inspected : EndStep(s)
    \/ \E s \in Inspected : DeleteSession(s)
    \/ \E s \in Inspected : OpenHistory(s)
    \/ NextItem

SpecInspect == InitInspect /\ [][NextInspect]_vars

Ascending(h) == \A i, j \in 1..Len(h) : i < j => h[i].seq < h[j].seq

\* C11: history lists a session's checkpoints in ascending sequence order;
\* walking the listed sequence a second time, with no write to the session
\* in between, yields the same checkpoints as the first time; latest is the
\* last element of history, or none when the session has no checkpoint.
C11_HistoryAscendingRestartable ==
    /\ \A t \in Sessions :
          LET h == List(store, t)
          IN /\ Ascending(h)
             /\ GetTuple(store, t) = IF h = <<>> THEN NoCheckpoint ELSE h[Len(h)]
    /\ (iter.pass = 3 /\ ~iter.dirty) =>
          /\ iter.seen = iter.first
          /\ iter.first = iter.snap

C11_Witness ==
    /\ iter.pass = 3
    /\ ~iter.dirty
    /\ Len(iter.seen) >= 3
    /\ GetTuple(store, ThreadOf(iter.s)) = iter.seen[Len(iter.seen)]
    /\ \E t \in Sessions : GetTuple(store, t) = NoCheckpoint

(***************************************************************************)
(* Building a graph: the builder calls of the demos, in the order the      *)
(* source makes them.  A node function annotated                           *)
(* Command[Literal[...]] declares the nodes its goto may name.             *)
(***************************************************************************)
AddNode(name, gotos) == [op |-> "add_node", a |-> name, b |-> "", dest |-> gotos]

AddEdge(from, to) == [op |-> "add_edge", a |-> from, b |-> to, dest |-> {}]

SetEntryPoint(name) == [op |-> "set_entry_point", a |-> name, b |-> "", dest |-> {}]

CompileCall == [op |-> "compile", a |-> "", b |-> "", dest |-> {}]

\* (variant: the edge from START names a node that is not registered)
InterruptBuild_edge_to_unregistered ==
    <<AddNode("human_node", {}), AddEdge(START, "human"), CompileCall>>

\* demo_interrupt_minimal
InterruptBuild ==
    <<AddNode("human_node", {}), AddEdge(START, "human_node"), CompileCall>>

\* (variant: human_approval does not declare the targets of its goto)
ApproveBuild_undeclared_goto ==
    <<AddNode("human_approval", {}),
      AddNode("some_node", {}), AddNode("another_node", {}),
      SetEntryPoint("human_approval"),
      AddEdge("some_node", END), AddEdge("another_node", END), CompileCall>>

\* demo_approve_or_reject_minimal
ApproveBuild ==
    <<AddNode("human_approval", {"some_node", "another_node"}),
      AddNode("some_node", {}), AddNode("another_node", {}),
      SetEntryPoint("human_approval"),
      AddEdge("some_node", END), AddEdge("another_node", END), CompileCall>>

\* demo_edit_state_extended
EditBuild ==
    <<AddNode("generate_summary", {}), AddNode("human_review_edit", {}),
      AddNode("downstream_use", {}),
      SetEntryPoint("generate_summary"),
      AddEdge("generate_summary", "human_review_edit"),
      AddEdge("human_review_edit", "downstream_use"),
      AddEdge("downstream_use", END), CompileCall>>

\* demo_resume_multiple_interrupts
MultiBuild ==
    <<AddNode("human_node_1", {}), AddNode("human_node_2", {}),
      AddEdge(START, "human_node_1"), AddEdge(START, "human_node_2"), CompileCall>>

Builds == {InterruptBuild, ApproveBuild, EditBuild, MultiBuild}

\* The graph record a demo's run uses.
BuiltGraph(sc) ==
    CASE sc = InterruptBuild -> InterruptGraph
      [] sc = ApproveBuild -> ApproveGraph
      [] sc = EditBuild -> EditGraph
      [] sc = MultiBuild -> MultiGraph

\* Builds that differ from a demo's in one call: a call left out, an edge
\* pointed at another name, a call made twice.
Drop(sc, i) == SubSeq(sc, 1, i - 1) \o SubSeq(sc, i + 1, Len(sc))

Retarget(sc, i, n) == [sc EXCEPT ![i].b = n]

Repeat(sc, i) == SubSeq(sc, 1, i) \o SubSeq(sc, i, Len(sc))

ScriptNames(sc) == {sc[i].a : i \in {j \in 1..Len(sc) : sc[j].op = "add_node"}}

BuildInputs ==
    Builds
    \cup UNION {{Drop(sc, i) : i \in 1..(Len(sc) - 1)} : sc \in Builds}
    \cup UNION {{Repeat(sc, i) : i \in 1..(Len(sc) - 1)} : sc \in Builds}
    \cup UNION {{Retarget(sc, i, n) :
                    <<i, n>> \in {j \in 1..(Len(sc) - 1) : sc[j].op = "add_edge"}
                                 \X (ScriptNames(sc) \cup {"missing_node"})} :
                 sc \in Builds}

\* The nodes reached from the names in seen along links.
RECURSIVE Closure(_, _)
Closure(seen, links) ==
    LET new == {e[2] : e \in {l \in links : l[1] \in seen}} \ seen
    IN IF new = {} THEN seen ELSE Closure(seen \cup new, links)

\* What leads from one node to another: an edge, or a declared goto.
Links(b) == b.edges \cup b.dest

\* compile(): every edge joins registered nodes, and every node is reached
\* from START.
Validate(b) ==
    IF \E e \in Links(b) : e[1] \notin b.nodes \cup {START} \/ e[2] \notin b.nodes \cup {END}
    THEN "UnknownNodeError"
    ELSE IF ~(b.nodes \subseteq Closure({START}, Links(b)))
    THEN "UnreachableNodeError"
    ELSE "compiled"

\* The graph handle compile() returns.
Handle(b) ==
    [nodes |-> b.nodes,
     start |-> {e[2] : e \in {l \in b.edges : l[1] = START}},
     edges |-> [n \in b.nodes |-> {e[2] : e \in {l \in b.edges : l[1] = n}} \ {END}]]

Call == builder.script[builder.pc]

Building == builder.status = "building" /\ builder.pc <= Len(builder.script)

add_node ==
    /\ Building
    /\ Call.op = "add_node"
    /\ builder' = IF Call.a \in builder.nodes
                  THEN [builder EXCEPT !.status = "DuplicateNodeError"]
                  ELSE [builder EXCEPT !.nodes = @ \cup {Call.a},
                                       !.dest = @ \cup {<<Call.a, d>> : d \in Call.dest},
                                       !.pc = @ + 1]
    /\ UNCHANGED <<runVars, iter, running, nested, subStore, writing, py>>

add_edge ==
    /\ Building
    /\ Call.op = "add_edge"
    /\ builder' = [builder EXCEPT !.edges = @ \cup {<<Call.a, Call.b>>}, !.pc = @ + 1]
    /\ UNCHANGED <<runVars, iter, running, nested, subStore, writing, py>>

set_entry_point ==
    /\ Building
    /\ Call.op = "set_entry_point"
    /\ builder' = [builder EXCEPT !.edges = @ \cup {<<START, Call.a>>}, !.pc = @ + 1]
    /\ UNCHANGED <<runVars, iter, running, nested, subStore, writing, py>>

compile ==
    /\ Building
    /\ Call.op = "compile"
    /\ builder' = [builder EXCEPT !.status = Validate(builder), !.pc = @ + 1]
    /\ UNCHANGED <<runVars, iter, running, nested, subStore, writing, py>>

InitBuild ==
    /\ InitRun
    /\ demo = "interrupt"
    /\ iter = NoIteration
    /\ running = [s \in Sessions |-> {}]
    /\ nested = [s \in Sessions |-> NotStarted]
    /\ subStore = [t \in Sessions |-> NoLogs]
    /\ writing = [t \in Sessions |-> {}]
    /\ py = NoCall
    /\ builder \in {[NoBuilder EXCEPT !.script = sc] : sc \in BuildInputs}

NextBuild == add_node \/ add_edge \/ set_entry_point \/ compile

SpecBuild == InitBuild /\ [][NextBuild]_vars

\* The builder has made all its calls, compile() included.
Compiled == builder.pc > Len(builder.script)

\* to is reached from from in at most k steps along links.
RECURSIVE HasPath(_, _, _, _)
HasPath(from, to, links, k) ==
    \/ from = to
    \/ k > 0 /\ \E e \in links : e[1] = from /\ HasPath(e[2], to, links, k - 1)

ReachedAlong(links) ==
    \A n \in builder.nodes : HasPath(START, n, links, Cardinality(builder.nodes))

Joined(links) ==
    \A e \in links : e[1] \in builder.nodes \cup {START} /\ e[2] \in builder.nodes \cup {END}

\* C13: a build with an edge to an unregistered node fails compile() with
\* UnknownNodeError; in every handle compile() returns, each edge ends at a
\* registered node; the builds of the demos (demo_interrupt_minimal among
\* them) return the graphs their runs use.
C13_NoOrphanedEdges ==
    /\ builder.status = "compiled" =>
          /\ \A e \in builder.edges : e[2] \in builder.nodes \cup {END}
          /\ Handle(builder).start \subseteq builder.nodes
          /\ \A n \in builder.nodes : Handle(builder).edges[n] \subseteq builder.nodes
    /\ (Compiled /\ \E e \in builder.edges : e[2] \notin builder.nodes \cup {END}) =>
          builder.status = "UnknownNodeError"
    /\ (Compiled /\ builder.script \in Builds) =>
          /\ builder.status = "compiled"
          /\ Handle(builder) = BuiltGraph(builder.script)

C13_Witness ==
    /\ builder.status = "UnknownNodeError"
    /\ \E e \in builder.edges : e[2] = "missing_node"
    /\ "missing_node" \notin builder.nodes

\* C14 as stated: compile() fails with UnreachableNodeError when a node has
\* no path of edges from START, and returns a handle only when every node
\* has one.
C14_ReachableByEdges ==
    /\ builder.status = "compiled" => ReachedAlong(builder.edges)
    /\ (Compiled /\ Joined(builder.edges \cup builder.dest)
          /\ ~ReachedAlong(builder.edges)) =>
          builder.status = "UnreachableNodeError"

\* C14: compile() fails with UnreachableNodeError when a node has no path
\* from START along edges and declared goto targets, and returns a handle
\* only when every node has one; the approve/reject build, whose some_node
\* and another_node have no incoming edge, returns its graph.
C14_ReachableByEdgesOrGotos ==
    /\ builder.status = "compiled" => ReachedAlong(builder.edges \cup builder.dest)
    /\ builder.status = "UnreachableNodeError" =>
          ~ReachedAlong(builder.edges \cup builder.dest)
    /\ (Compiled /\ Joined(builder.edges \cup builder.dest)
          /\ ~ReachedAlong(builder.edges \cup builder.dest)) =>
          builder.status = "UnreachableNodeError"
    /\ (Compiled /\ builder.script = ApproveBuild) =>
          /\ builder.status = "compiled"
          /\ Handle(builder) = ApproveGraph
          /\ \A e \in builder.edges : e[2] \notin {"some_node", "another_node"}

C14_Witness ==
    /\ builder.script = ApproveBuild
    /\ builder.status = "compiled"
    /\ ~ReachedAlong(builder.edges)

(***************************************************************************)
(* The tasks of a superstep seen at a finer grain: a node begins, and      *)
(* later returns, interrupts or raises.  The nodes scheduled together      *)
(* (both follow START in demo_resume_multiple_interrupts, which calls them *)
(* parallel) are independent tasks of the same run.                        *)
(***************************************************************************)
BeginNode(s, n) ==
    /\ status[s] = "RUNNING"
    /\ Log(s) # <<>>
    /\ Len(Log(s)) < MaxSeq
    /\ n \in Latest(s).next
    /\ n \notin {w.node : w \in writes[s]}
    /\ n \notin running[s]
    /\ running' = [running EXCEPT ![s] = @ \cup {n}]
    /\ UNCHANGED <<runVars, iter, builder, nested, subStore, writing, py>>

\* An exception ends the run, and with it the tasks still under way.
FinishNode(s, n, llm) ==
    /\ n \in running[s]
    /\ ExecCore(s, n, llm)
    /\ running' = [running EXCEPT ![s] = IF status'[s] = "FAILED" THEN {} ELSE @ \ {n}]
    /\ UNCHANGED <<iter, builder, nested, subStore, writing, py>>

InitFine == Init /\ demo \in {"multi", "edit"}

NextFine ==
    \/ \E s \in Sessions, input \in InvokeInputs(demo) : Invoke(s, input)
    \/ \E s \in Sessions, n \in Graph(demo).nodes : BeginNode(s, n)
    \/ \E s \in Sessions, n \in Graph(demo).nodes : FinishNode(s, n, "none")
    \/ \E s \in Sessions : EndStep(s)
    \/ \E s \in Sessions :
          \E rv \in [PendingNodes(s) -> ResumeInputs(demo)] : Resume(s, rv)

SpecFine == InitFine /\ [][NextFine]_vars

\* C15 as stated: within one session at most one node is executing at any
\* time.
C15_OneNodeAtATime ==
    \A s \in Sessions : Cardinality(running[s]) <= 1

\* C15: within one session the nodes under way all belong to the step the
\* latest checkpoint scheduled and have not yet returned or interrupted, so
\* a step's nodes are through before a node of the next step begins; where
\* a step schedules one node at most one node is executing; the two nodes
\* that follow START may be executing together, and the first run enters
\* both before it pauses.
C15_OneStepAtATime ==
    \A s \in Sessions :
        /\ running[s] # {} =>
              /\ status[s] = "RUNNING"
              /\ running[s] \subseteq Latest(s).next
              /\ running[s] \cap {w.node : w \in writes[s]} = {}
              /\ Cardinality(Latest(s).next) <= 1 => Cardinality(running[s]) <= 1
        /\ demo = "edit" => Cardinality(running[s]) <= 1
        /\ (demo = "multi" /\ status[s] = "PAUSED" /\ Len(ops[s]) = 1) =>
              /\ Len(trace[s]) = 2
              /\ {trace[s][1], trace[s][2]} = {"human_node_1", "human_node_2"}

C15_Witness ==
    /\ demo = "multi"
    /\ \E s \in Sessions :
          /\ running[s] = {"human_node_1", "human_node_2"}
          /\ Len(ops[s]) = 1

(***************************************************************************)
(* demo_parent_subgraph_interrupt: parent_node calls subgraph.invoke, and  *)
(* the subgraph and the parent graph are compiled with the same            *)
(* checkpointer.  Each graph's run loop appends its own checkpoints to the *)
(* session's thread; an append begins and, later, ends.                    *)
(***************************************************************************)
SubgraphGraph ==
    [nodes |-> {"some_node", "human_node"},
     start |-> {"some_node"},
     edges |-> [n \in {"some_node", "human_node"} |->
                  IF n = "some_node" THEN {"human_node"} ELSE {}]]

ParentGraph ==
    [nodes |-> {"parent_node"},
     start |-> {"parent_node"},
     edges |-> [n \in {"parent_node"} |-> {}]]

\* Where a run is about to append a checkpoint, and which loop appends it.
ParentPuts == {"p_put_input", "p_put_pause", "p_put_final"}

SubPuts == {"s_put_input", "s_put_step", "s_put_pause"}

Writer(s) == <<s, IF nested[s].pc \in ParentPuts THEN "parent" ELSE "sub">>

SubLog(s) == subStore[ThreadOf(s)].sub

LastEntered(s) == nested[s].entered[Len(nested[s].entered)]

\* The checkpoint the run is about to append.
Appending(s) ==
    CASE nested[s].pc = "p_put_input" -> [next |-> ParentGraph.start, pending |-> FALSE]
      [] nested[s].pc = "p_put_pause" -> [next |-> ParentGraph.start, pending |-> TRUE]
      [] nested[s].pc = "p_put_final" -> [next |-> {}, pending |-> FALSE]
      [] nested[s].pc = "s_put_input" -> [next |-> SubgraphGraph.start, pending |-> FALSE]
      [] nested[s].pc = "s_put_step" ->
            [next |-> SubgraphGraph.edges[LastEntered(s)], pending |-> FALSE]
      [] nested[s].pc = "s_put_pause" ->
            [next |-> SubLog(s)[Len(SubLog(s))].next, pending |-> TRUE]

\* Where the run goes on after the append.
AfterPut(s) ==
    CASE nested[s].pc = "p_put_input" -> "p_dispatch"
      [] nested[s].pc = "p_put_pause" -> "paused"
      [] nested[s].pc = "p_put_final" -> "completed"
      [] nested[s].pc = "s_put_input" -> "s_dispatch"
      [] nested[s].pc = "s_put_step" ->
            IF Appending(s).next = {} THEN "p_put_final" ELSE "s_dispatch"
      [] nested[s].pc = "s_put_pause" -> "p_put_pause"

\* graph.stream({"state_counter": 1}, config)
SubInvoke(s) ==
    /\ nested[s].pc = "none"
    /\ nested' = [nested EXCEPT ![s].pc = "p_put_input"]
    /\ UNCHANGED <<runVars, iter, builder, running, subStore, writing, py>>

StartWrite(s) ==
    /\ nested[s].pc \in ParentPuts \cup SubPuts
    /\ Writer(s) \notin writing[ThreadOf(s)]
    /\ writing' = [writing EXCEPT ![ThreadOf(s)] = @ \cup {Writer(s)}]
    /\ UNCHANGED <<runVars, iter, builder, running, nested, subStore, py>>

EndWrite(s) ==
    /\ nested[s].pc \in ParentPuts \cup SubPuts
    /\ Writer(s) \in writing[ThreadOf(s)]
    /\ subStore' = [subStore EXCEPT ![ThreadOf(s)] =
                      IF Writer(s)[2] = "parent"
                      THEN [@ EXCEPT !.parent = Append(@, Appending(s))]
                      ELSE [@ EXCEPT !.sub = Append(@, Appending(s))]]
    /\ writing' = [writing EXCEPT ![ThreadOf(s)] = @ \ {Writer(s)}]
    /\ nested' = [nested EXCEPT ![s].pc = AfterPut(s)]
    /\ UNCHANGED <<runVars, iter, builder, running, py>>

\* The parent's loop runs parent_node, from its first line.
EnterParent(s) ==
    /\ nested[s].pc = "p_dispatch"
    /\ nested' = [nested EXCEPT ![s].pc = "s_call", ![s].entered = Append(@, "parent_node")]
    /\ UNCHANGED <<runVars, iter, builder, running, subStore, writing, py>>

\* (variant: every subgraph.invoke(state) starts the subgraph from its input)
CallSubgraph_from_input(s) ==
    /\ nested[s].pc = "s_call"
    /\ nested' = [nested EXCEPT ![s].pc = "s_put_input"]
    /\ UNCHANGED <<runVars, iter, builder, running, subStore, writing, py>>

\* subgraph.invoke(state): a paused subgraph run goes on from its latest
\* checkpoint, any other starts from the input.
CallSubgraph(s) ==
    /\ nested[s].pc = "s_call"
    /\ nested' = [nested EXCEPT ![s].pc =
                    IF SubLog(s) # <<>> /\ SubLog(s)[Len(SubLog(s))].pending
                    THEN "s_dispatch" ELSE "s_put_input"]
    /\ UNCHANGED <<runVars, iter, builder, running, subStore, writing, py>>

\* The subgraph's loop runs a node its latest checkpoint schedules;
\* human_node interrupts unless the resume value is there.
EnterSubNode(s, n) ==
    /\ nested[s].pc = "s_dispatch"
    /\ SubLog(s) # <<>>
    /\ n \in SubLog(s)[Len(SubLog(s))].next
    /\ nested' = [nested EXCEPT ![s].entered = Append(@, n),
                                ![s].pc = IF n = "human_node" /\ ~nested[s].resumed
                                          THEN "s_put_pause" ELSE "s_put_step"]
    /\ UNCHANGED <<runVars, iter, builder, running, subStore, writing, py>>

\* graph.stream(Command(resume="Alice"), config)
SubResume(s) ==
    /\ nested[s].pc = "paused"
    /\ nested' = [nested EXCEPT ![s].pc = "p_dispatch", ![s].resumed = TRUE]
    /\ UNCHANGED <<runVars, iter, builder, running, subStore, writing, py>>

InitSub ==
    /\ InitRun
    /\ demo = "interrupt"
    /\ InitOthers

NextSub ==
    \/ \E s \in Sessions : SubInvoke(s)
    \/ \E s \in Sessions : StartWrite(s)
    \/ \E s \in Sessions : EndWrite(s)
    \/ \E s \in Sessions : EnterParent(s)
    \/ \E s \in Sessions : CallSubgraph(s)
    \/ \E s \in Sessions, n \in SubgraphGraph.nodes : EnterSubNode(s, n)
    \/ \E s \in Sessions : SubResume(s)

SpecSub == InitSub /\ [][NextSub]_vars

None == <<"None">>

\* run_complete_tutorial: results[key] = fn(), in this order.
\* (variant: the dynamic prompt demo is run before the static prompt demo)
Tutorial_dynamic_first ==
    <<[key |-> "basic", fn |-> "run_basic_agent_demo"],
      [key |-> "configured", fn |-> "run_configured_agent_demo"],
      [key |-> "dynamic_prompt", fn |-> "run_dynamic_prompt_demo"],
      [key |-> "static_prompt", fn |-> "run_static_prompt_demo"],
      [key |-> "memory", fn |-> "run_memory_agent_demo"],
      [key |-> "structured", fn |-> "run_structured_output_demo"]>>

Tutorial ==
    <<[key |-> "basic", fn |-> "run_basic_agent_demo"],
      [key |-> "configured", fn |-> "run_configured_agent_demo"],
      [key |-> "static_prompt", fn |-> "run_static_prompt_demo"],
      [key |-> "dynamic_prompt", fn |-> "run_dynamic_prompt_demo"],
      [key |-> "memory", fn |-> "run_memory_agent_demo"],
      [key |-> "structured", fn |-> "run_structured_output_demo"]>>

TutorialFns == {Tutorial[i].fn : i \in 1..Len(Tutorial)}

\* How many times a function calls agent.invoke when nothing raises.
Invokes(fn) == IF fn = "run_memory_agent_demo" THEN 2 ELSE 1

\* What a function returns from the values invoke returned.
Returns(fn, v) == IF fn = "run_memory_agent_demo" THEN <<"sf", v, "ny", v>> ELSE <<v>>

\* The except clauses of a function, in order.
\* (variant: only ValueError is handled)
Handlers_ValueError_only(fn) == <<"ValueError">>

Handlers(fn) ==
    IF fn = "run_agent_demo" THEN <<"ValueError", "Exception">> ELSE <<"Exception">>

\* isinstance(exc, class) for the two exception classes at hand.
IsInstance(exc, class) == class = exc \/ class = "Exception"

Caught(fn, exc) == \E i \in 1..Len(Handlers(fn)) : IsInstance(exc, Handlers(fn)[i])

\* The function whose body is being executed.
Cur == IF py.top = "run_complete_tutorial" THEN Tutorial[py.idx].fn ELSE py.top

\* The function under execution returns r.
Bind(r) ==
    IF py.top = "run_complete_tutorial"
    THEN LET res == [k \in DOMAIN py.results \cup {Tutorial[py.idx].key} |->
                        IF k = Tutorial[py.idx].key THEN r ELSE py.results[k]]
         IN IF py.idx = Len(Tutorial)
            THEN [py EXCEPT !.results = res, !.returned = res, !.phase = "done"]
            ELSE [py EXCEPT !.results = res, !.idx = @ + 1, !.invoked = 0,
                            !.calls = Append(@, Tutorial[py.idx + 1].fn),
                            !.phase = "create"]
    ELSE [py EXCEPT !.returned = r, !.phase = "done"]

\* An exception is raised inside the try block of the function.
Raise(exc) ==
    IF Caught(Cur, exc) THEN [py EXCEPT !.phase = "except"]
    ELSE [py EXCEPT !.phase = "raised", !.raised = exc]

CallTop ==
    /\ py.phase = "idle"
    /\ py' = [py EXCEPT !.idx = 1, !.phase = "create",
                        !.calls = <<IF py.top = "run_complete_tutorial"
                                    THEN Tutorial[1].fn ELSE py.top>>]
    /\ UNCHANGED <<runVars, iter, builder, running, nested, subStore, writing>>

CreateAgent ==
    /\ py.phase = "create"
    /\ py' = IF py.env[Cur].fails = "create" THEN Raise(py.env[Cur].exc)
             ELSE [py EXCEPT !.phase = "invoke"]
    /\ UNCHANGED <<runVars, iter, builder, running, nested, subStore, writing>>

InvokeAgent ==
    /\ py.phase = "invoke"
    /\ LET called == [py EXCEPT !.invoked = @ + 1]
       IN py' = IF \/ py.env[Cur].fails = "invoke" /\ called.invoked = 1
                   \/ py.env[Cur].fails = "invoke2" /\ called.invoked = 2
                THEN [Raise(py.env[Cur].exc) EXCEPT !.invoked = called.invoked]
                ELSE IF called.invoked < Invokes(Cur) THEN called
                ELSE [called EXCEPT !.phase = "return"]
    /\ UNCHANGED <<runVars, iter, builder, running, nested, subStore, writing>>

\* return result
ReturnResult ==
    /\ py.phase = "return"
    /\ py' = Bind(Returns(Cur, py.env[Cur].value))
    /\ UNCHANGED <<runVars, iter, builder, running, nested, subStore, writing>>

\* except ...: return None
ReturnNone ==
    /\ py.phase = "except"
    /\ py' = Bind(None)
    /\ UNCHANGED <<runVars, iter, builder, running, nested, subStore, writing>>

\* What can go wrong in one function, and what its agent answers.
Outcome(fails, exc, value) == [fails |-> fails, exc |-> exc, value |-> value]

SingleEnvs(fn) ==
    {[f \in {fn} |-> Outcome(fails, exc, v)] :
        <<fails, exc, v>> \in {"", "create", "invoke"} \X {"ValueError", "Exception"}
                              \X {"r1", "r2"}}

TutorialEnvs ==
    {[f \in TutorialFns |-> Outcome(fails[f], "Exception", f)] :
        fails \in {g \in [TutorialFns -> {"", "create", "invoke", "invoke2"}] :
                      \A f \in TutorialFns : g[f] = "invoke2" => Invokes(f) = 2}}

InitPy ==
    /\ InitRun
    /\ demo = "interrupt"
    /\ iter = NoIteration
    /\ builder = NoBuilder
    /\ running = [s \in Sessions |-> {}]
    /\ nested = [s \in Sessions |-> NotStarted]
    /\ subStore = [t \in Sessions |-> NoLogs]
    /\ writing = [t \in Sessions |-> {}]
    /\ py \in {[NoCall EXCEPT !.top = "run_agent_demo", !.env = e] :
                  e \in SingleEnvs("run_agent_demo")}
          \cup {[NoCall EXCEPT !.top = "run_basic_agent_demo", !.env = e] :
                  e \in SingleEnvs("run_basic_agent_demo")}
          \cup {[NoCall EXCEPT !.top = "run_complete_tutorial", !.env = e] :
                  e \in TutorialEnvs}

NextPy == CallTop \/ CreateAgent \/ InvokeAgent \/ ReturnResult \/ ReturnNone

SpecPy == InitPy /\ [][NextPy]_vars

\* C19: run_agent_demo and run_basic_agent_demo let no exception out: when
\* the agent's creation or agent.invoke raises, ValueError or another
\* Exception, they return None; otherwise they call agent.invoke once and
\* return what it returned.
C19_DemoNeverRaises ==
    py.top \in {"run_agent_demo", "run_basic_agent_demo"} =>
        /\ py.raised = ""
        /\ py.phase # "raised"
        /\ py.invoked <= 1
        /\ py.phase = "done" =>
              /\ py.calls = <<py.top>>
              /\ py.env[py.top].fails = "" =>
                    /\ py.invoked = 1
                    /\ py.returned = <<py.env[py.top].value>>
              /\ py.env[py.top].fails = "create" =>
                    /\ py.invoked = 0
                    /\ py.returned = <<"None">>
              /\ py.env[py.top].fails = "invoke" =>
                    /\ py.invoked = 1
                    /\ py.returned = <<"None">>

C19_Witness ==
    /\ py.top = "run_agent_demo"
    /\ py.phase = "done"
    /\ py.env["run_agent_demo"].fails = "invoke"
    /\ py.env["run_agent_demo"].exc = "Exception"
    /\ py.invoked = 1
    /\ py.returned = <<"None">>

\* The order in which run_complete_tutorial is to call the demos.
SixDemos ==
    <<"run_basic_agent_demo", "run_configured_agent_demo", "run_static_prompt_demo",
      "run_dynamic_prompt_demo", "run_memory_agent_demo", "run_structured_output_demo">>

SixKeys == <<"basic", "configured", "static_prompt", "dynamic_prompt", "memory", "structured">>

\* What demo i is to return under the environment.
Expected(i) ==
    LET fn == SixDemos[i]
    IN IF py.env[fn].fails # "" THEN <<"None">>
       ELSE IF fn = "run_memory_agent_demo" THEN <<"sf", fn, "ny", fn>>
       ELSE <<fn>>

\* C20: run_complete_tutorial calls the six demos once each, in the order
\* basic, configured, static prompt, dynamic prompt, memory, structured,
\* whichever of them fail, and returns a mapping with exactly the six keys,
\* each bound to what its demo returned (None for a demo that failed).
C20_TutorialRunsAllSix ==
    py.top = "run_complete_tutorial" =>
        /\ py.raised = ""
        /\ IsPrefix(py.calls, SixDemos)
        /\ DOMAIN py.results = {SixKeys[i] : i \in 1..(Len(py.calls) - 1)}
                                  \cup (IF py.phase = "done" THEN {SixKeys[6]} ELSE {})
        /\ py.phase # "done" => ENABLED NextPy
        /\ py.phase = "done" =>
              /\ py.calls = SixDemos
              /\ DOMAIN py.returned = {SixKeys[i] : i \in 1..6}
              /\ \A i \in 1..6 : py.returned[SixKeys[i]] = Expected(i)

C20_Witness ==
    /\ py.top = "run_complete_tutorial"
    /\ py.phase = "done"
    /\ py.env["run_basic_agent_demo"].fails = "create"
    /\ py.env["run_memory_agent_demo"].fails = "invoke2"
    /\ py.returned["basic"] = <<"None">>
    /\ py.returned["memory"] = <<"None">>
    /\ py.returned["structured"] = <<"run_structured_output_demo">>

(***************************************************************************)
(* The create_*_agent functions of langgraph_agents_tutorial.py and        *)
(* react_agent_demo.py.  Each is a list of statements, every one binding   *)
(* a local name to what a library call returns; an argument "$x" is the    *)
(* value of the local x.  env holds what the libraries return: the model   *)
(* of get_lm_studio_llm, the agent of create_react_agent and the           *)
(* ANTHROPIC_API_KEY of the environment.                                   *)
(***************************************************************************)
Stmt(bind, callee, args, required) ==
    [bind |-> bind, callee |-> callee, args |-> args, required |-> required]

create_basic_agent ==
    <<Stmt("model", "get_lm_studio_llm", {}, FALSE),
      Stmt("agent", "create_react_agent",
           {<<"model", "$model">>, <<"tools", "get_weather">>,
            <<"prompt", "You are a helpful assistant">>}, FALSE)>>

create_configured_agent ==
    <<Stmt("model", "get_lm_studio_llm", {}, FALSE),
      Stmt("agent", "create_react_agent",
           {<<"model", "$model">>, <<"tools", "get_weather">>}, FALSE)>>

create_static_prompt_agent ==
    <<Stmt("model", "get_lm_studio_llm", {}, FALSE),
      Stmt("agent", "create_react_agent",
           {<<"model", "$model">>, <<"tools", "get_weather">>,
            <<"prompt", "Never answer questions about the weather.">>}, FALSE)>>

create_dynamic_prompt_agent ==
    <<Stmt("model", "get_lm_studio_llm", {}, FALSE),
      Stmt("agent", "create_react_agent",
           {<<"model", "$model">>, <<"tools", "get_weather">>, <<"prompt", "prompt">>},
           FALSE)>>

create_memory_agent ==
    <<Stmt("checkpointer", "InMemorySaver", {}, FALSE),
      Stmt("model", "get_lm_studio_llm", {}, FALSE),
      Stmt("agent", "create_react_agent",
           {<<"model", "$model">>, <<"tools", "get_weather">>,
            <<"checkpointer", "$checkpointer">>}, FALSE)>>

create_structured_output_agent ==
    <<Stmt("model", "get_lm_studio_llm", {}, FALSE),
      Stmt("agent", "create_react_agent",
           {<<"model", "$model">>, <<"tools", "get_weather">>,
            <<"response_format", "WeatherResponse">>}, FALSE)>>

\* if not api_key: raise ValueError(...)
create_weather_agent ==
    <<Stmt("api_key", "os.getenv", {<<"0", "ANTHROPIC_API_KEY">>}, TRUE),
      Stmt("agent", "create_react_agent",
           {<<"model", "anthropic:claude-3-7-sonnet-latest">>, <<"tools", "get_weather">>,
            <<"prompt", "You are a helpful assistant">>}, FALSE)>>

CreateFns ==
    {"create_basic_agent", "create_configured_agent", "create_static_prompt_agent",
     "create_dynamic_prompt_agent", "create_memory_agent",
     "create_structured_output_agent", "create_weather_agent"}

Body(fn) ==
    CASE fn = "create_basic_agent" -> create_basic_agent
      [] fn = "create_configured_agent" -> create_configured_agent
      [] fn = "create_static_prompt_agent" -> create_static_prompt_agent
      [] fn = "create_dynamic_prompt_agent" -> create_dynamic_prompt_agent
      [] fn = "create_memory_agent" -> create_memory_agent
      [] fn = "create_structured_output_agent" -> create_structured_output_agent
      [] fn = "create_weather_agent" -> create_weather_agent

\* What a library call returns under the environment.
Mock(callee, env) ==
    CASE callee = "get_lm_studio_llm" -> env.llm
      [] callee = "init_chat_model" -> env.llm
      [] callee = "create_react_agent" -> env.agent
      [] callee = "os.getenv" -> env.api_key
      [] callee = "InMemorySaver" -> "saver"

\* The value of an argument: a local when it is written "$x".
Resolve(v, locals) ==
    IF \E k \in DOMAIN locals : v = "$" \o k
    THEN locals[CHOOSE k \in DOMAIN locals : v = "$" \o k]
    ELSE v

LibCall(callee, args) == [callee |-> callee, args |-> args]

\* The function is called.
CallCreate ==
    /\ py.phase = "idle"
    /\ py.top \in CreateFns
    /\ py' = [py EXCEPT !.phase = "body", !.idx = 1]
    /\ UNCHANGED <<runVars, iter, builder, running, nested, subStore, writing>>

\* The next statement of the body is executed.
ExecStmt ==
    /\ py.phase = "body"
    /\ py.idx <= Len(Body(py.top))
    /\ LET st == Body(py.top)[py.idx]
           call == LibCall(st.callee,
                           {<<a[1], Resolve(a[2], py.results)>> : a \in st.args})
           value == Mock(st.callee, py.env)
           locals == [k \in DOMAIN py.results \cup {st.bind} |->
                         IF k = st.bind THEN value ELSE py.results[k]]
       IN py' = IF st.required /\ value = ""
                THEN [py EXCEPT !.calls = Append(@, call), !.phase = "raised",
                                !.raised = "ValueError"]
                ELSE [py EXCEPT !.calls = Append(@, call), !.results = locals,
                                !.idx = @ + 1]
    /\ UNCHANGED <<runVars, iter, builder, running, nested, subStore, writing>>

\* return agent
ReturnAgent ==
    /\ py.phase = "body"
    /\ py.idx > Len(Body(py.top))
    /\ py' = [py EXCEPT !.phase = "done", !.returned = <<py.results["agent"]>>]
    /\ UNCHANGED <<runVars, iter, builder, running, nested, subStore, writing>>

CreateEnvs ==
    {[llm |-> m, agent |-> a, api_key |-> k] :
        <<m, a, k>> \in {"llm_1", "llm_2"} \X {"agent_1", "agent_2"} \X {"", "sk-1"}}

InitCreate ==
    /\ InitRun
    /\ demo = "interrupt"
    /\ iter = NoIteration
    /\ builder = NoBuilder
    /\ running = [s \in Sessions |-> {}]
    /\ nested = [s \in Sessions |-> NotStarted]
    /\ subStore = [t \in Sessions |-> NoLogs]
    /\ writing = [t \in Sessions |-> {}]
    /\ py \in {[NoCall EXCEPT !.top = fn, !.env = e] : fn \in CreateFns, e \in CreateEnvs}

NextCreate == CallCreate \/ ExecStmt \/ ReturnAgent

SpecCreate == InitCreate /\ [][NextCreate]_vars

\* The calls made so far to one library function.
CallsTo(callee) == SelectSeq(py.calls, LAMBDA c : c.callee = callee)

\* C21: create_configured_agent calls init_chat_model exactly once, with
\* "anthropic:claude-3-7-sonnet-latest" and temperature=0, and returns the
\* agent that create_react_agent built.
C21_ConfiguredAgentInitChatModel ==
    (py.top = "create_configured_agent" /\ py.phase = "done") =>
        /\ CallsTo("init_chat_model") =
              <<LibCall("init_chat_model",
                        {<<"0", "anthropic:claude-3-7-sonnet-latest">>,
                         <<"temperature", "0">>})>>
        /\ py.returned = <<py.env.agent>>

(***************************************************************************)
(* demo_multiple_interrupts_in_one_node_caution: one node with two         *)
(* interrupt(...) calls, each made only when the state lacks its field.    *)
(***************************************************************************)
\* graph.stream(Command(resume=rv, update=upd), config): the update is
\* written to the paused state, then the interrupted task is handed the
\* value and runs again on the updated state.
ResumeUpdate(s, rv, upd) ==
    /\ status[s] = "PAUSED"
    /\ Log(s) # <<>>
    /\ Len(Log(s)) + 1 < MaxSeq
    /\ DOMAIN rv = PendingNodes(s)
    /\ store' = Put(store, ThreadOf(s),
                    Checkpoint(NextSeq(Log(s)), Merge(demo, Latest(s).state, upd),
                               Latest(s).next, Latest(s).pending))
    /\ resumeVals' = [resumeVals EXCEPT ![s] =
                        [n \in Graph(demo).nodes |->
                            IF n \in DOMAIN rv THEN Append(@[n], rv[n]) ELSE @[n]]]
    /\ writes' = [writes EXCEPT ![s] = {w \in @ : w.res.kind # "interrupt"}]
    /\ status' = [status EXCEPT ![s] = "RUNNING"]
    /\ result' = [result EXCEPT ![s] = NoResult]
    /\ mark' = [mark EXCEPT ![s] = Len(trace[s])]
    /\ ops' = [ops EXCEPT ![s] = Append(@, [op |-> "resume_update", arg |-> rv,
                                           update |-> upd])]
    /\ UNCHANGED <<demo, trace, effects>>
    /\ UNCHANGED others

InitCaution == demo = "caution" /\ InitSessions /\ InitOthers

NextCaution ==
    \/ \E s \in Sessions, input \in InvokeInputs(demo) : Invoke(s, input)
    \/ \E s \in Sessions, n \in Graph(demo).nodes : ExecNode(s, n, "none")
    \/ \E s \in Sessions : EndStep(s)
    \/ \E s \in Sessions :
          \E rv \in [PendingNodes(s) -> ResumeInputs(demo)] : Resume(s, rv)
    \/ \E s \in Sessions :
          \E rv \in [PendingNodes(s) -> ResumeInputs(demo)], upd \in UpdateInputs(demo) :
             ResumeUpdate(s, rv, upd)

SpecCaution == InitCaution /\ [][NextCaution]_vars

\* The session was invoked and then resumed once, with value v for the
\* pending question and the update upd.
ResumedOnceWith(s, v, upd) ==
    /\ Len(ops[s]) = 2
    /\ ops[s][2].op = "resume_update"
    /\ ops[s][2].arg = [n \in {"human_node"} |-> v]
    /\ ops[s][2].update = upd

\* C22: resume values go to the interrupt calls by the position of the call
\* in the node's re-execution.  In the caution demo the first run pauses on
\* the name question; a resume with "John" and an update that sets name
\* makes the node skip the name question, and "John" is taken as the answer
\* to the age question: the run does not pause on the age question and ends
\* with age = "John", name = "N/A".  Without the update "John" is the name.
C22_ResumeValuesMatchedByPosition ==
    \A s \in Sessions :
        /\ (Len(ops[s]) = 1 /\ status[s] = "PAUSED") =>
              {p.payload.k : p \in Latest(s).pending} = {"what is your name?"}
        /\ ResumedOnceWith(s, StrV("John"), [name |-> StrV("foo")]) =>
              /\ status[s] \in {"RUNNING", "COMPLETED"}
              /\ status[s] = "COMPLETED" =>
                    /\ Latest(s).state["age"] = StrV("John")
                    /\ Latest(s).state["name"] = StrV("N/A")
                    /\ trace[s] = <<"human_node", "human_node">>
        /\ (Len(ops[s]) = 2 /\ ops[s][2].op = "resume"
              /\ ops[s][2].arg = [n \in {"human_node"} |-> StrV("John")]
              /\ status[s] # "RUNNING") =>
              /\ status[s] = "PAUSED"
              /\ {p.payload.k : p \in Latest(s).pending} = {"what is your age?"}

C22_Witness ==
    /\ ResumedOnceWith("s1", StrV("John"), [name |-> StrV("foo")])
    /\ status["s1"] = "COMPLETED"
    /\ Latest("s1").state["age"] = StrV("John")

(***************************************************************************)
(* demo_validate_input_minimal and demo_validate_input_extended, each run  *)
(* on one thread with any sequence of resume values.                       *)
(***************************************************************************)
InitValidate == demo \in {"validate", "validate_ext"} /\ InitSessions /\ InitOthers

\* The session the validation drivers run on.
Validating == {"s1"}

NextValidate ==
    \/ \E s \in Validating, input \in InvokeInputs(demo) : Invoke(s, input)
    \/ \E s \in Validating, n \in Graph(demo).nodes : ExecNode(s, n, "none")
    \/ \E s \in Validating : EndStep(s)
    \/ \E s \in Validating :
          \E rv \in [PendingNodes(s) -> ResumeInputs(demo)] : Resume(s, rv)

SpecValidate == InitValidate /\ [][NextValidate]_vars

\* The node that asks for the age.
Asker == IF demo = "validate" THEN "human_node" ELSE "get_valid_age"

\* The resume values that are to be taken as an age, and the age each gives.
AgeOf(v) ==
    IF demo = "validate"
    THEN (IF v.t = "int" /\ v.i >= 0 THEN v.i ELSE -1)
    ELSE CASE v = StrV("25") -> 25
           [] v = IntV(0) -> 0
           [] OTHER -> -1

\* C23: in the input-validation graphs the asking node completes only on a
\* resume value that is a non-negative integer (minimal: an int >= 0;
\* extended: a value whose string form parses as an int >= 0).  After a
\* resume with any other value the session is PAUSED again on a question
\* that names the rejected value, however many invalid values came before;
\* after a resume with a good value the run completes with that age.  Every
\* age in a checkpoint, and the age report_age reads, is an int >= 0.
C23_OnlyValidAgeCompletes ==
    \A s \in Validating :
        /\ \A i \in 1..Len(Log(s)) :
              "age" \in DOMAIN Log(s)[i].state =>
                  Log(s)[i].state["age"].t = "int" /\ Log(s)[i].state["age"].i >= 0
        /\ (Log(s) # <<>> /\ "report_age" \in Latest(s).next) =>
              /\ "age" \in DOMAIN Latest(s).state
              /\ Latest(s).state["age"].i >= 0
        /\ (ops[s] # <<>> /\ LastOp(s).op = "resume" /\ status[s] # "RUNNING") =>
              LET v == LastResume(s, Asker)
              IN IF AgeOf(v) >= 0
                 THEN /\ status[s] = "COMPLETED"
                      /\ Latest(s).state["age"] = IntV(AgeOf(v))
                 ELSE /\ status[s] = "PAUSED"
                      /\ \E p \in Latest(s).pending :
                            p.node = Asker /\ p.payload.v = v
        /\ status[s] = "COMPLETED" =>
              /\ LastOp(s).op = "resume"
              /\ AgeOf(LastResume(s, Asker)) >= 0

\* Two invalid values in a row were rejected, then a good one was accepted
\* and reported.
C23_Witness ==
    /\ demo = "validate_ext"
    /\ status["s1"] = "COMPLETED"
    /\ Len(ops["s1"]) = 4
    /\ ops["s1"][2].arg["get_valid_age"] = StrV("not a number")
    /\ ops["s1"][3].arg["get_valid_age"] = StrV("-10")
    /\ ops["s1"][4].arg["get_valid_age"] = StrV("25")
    /\ Latest("s1").state["age"] = IntV(25)
    /\ trace["s1"][Len(trace["s1"])] = "report_age"

(***************************************************************************)
(* demo_approve_or_reject_minimal and demo_approve_or_reject_extended.     *)
(***************************************************************************)
InitApprove == demo \in {"approve", "approve_ext"} /\ InitSessions /\ InitOthers

NextApprove ==
    \/ \E s \in Sessions, input \in InvokeInputs(demo) : Invoke(s, input)
    \/ \E s \in Sessions, n \in Graph(demo).nodes : ExecNode(s, n, "none")
    \/ \E s \in Sessions : EndStep(s)
    \/ \E s \in Sessions :
          \E rv \in [PendingNodes(s) -> ResumeInputs(demo)] : Resume(s, rv)

SpecApprove == InitApprove /\ [][NextApprove]_vars

\* The two path nodes of the demo, and the decisions that are approvals.
ApprovedPath == IF demo = "approve" THEN "some_node" ELSE "approved_path"

RejectedPath == IF demo = "approve" THEN "another_node" ELSE "rejected_path"

Approves(v) ==
    IF demo = "approve" THEN v \in {BoolV(TRUE), StrV("no")} ELSE v = StrV("approve")

\* C24: in the approve / reject graphs no path node runs before the human's
\* decision has been supplied; after the resume exactly one of the two path
\* nodes runs, once: the approved path iff the decision is truthy (minimal)
\* or equals "approve" (extended), the rejected path otherwise.  In the
\* extended graph the final decision field is "approved" exactly when the
\* approved path ran and "rejected" exactly when the rejected path ran.
C24_ExactlyOnePathAfterDecision ==
    \A s \in Sessions :
        LET a == Count(trace[s], ApprovedPath)
            r == Count(trace[s], RejectedPath)
        IN /\ a + r <= 1
           /\ (ops[s] = <<>> \/ LastOp(s).op # "resume") => a + r = 0
           /\ a + r = 1 =>
                 /\ a = 1 <=> Approves(LastResume(s, "human_approval"))
                 /\ trace[s][Len(trace[s]) - 1] = "human_approval"
           /\ status[s] = "COMPLETED" =>
                 /\ a + r = 1
                 /\ demo = "approve_ext" =>
                       /\ a = 1 <=> Latest(s).state["decision"] = StrV("approved")
                       /\ r = 1 <=> Latest(s).state["decision"] = StrV("rejected")

\* A truthy string approves in the minimal graph.
C24_Witness ==
    /\ demo = "approve"
    /\ status["s1"] = "COMPLETED"
    /\ LastResume("s1", "human_approval") = StrV("no")
    /\ trace["s1"] = <<"human_approval", "human_approval", "some_node">>

\* C25: with interrupt_before = ["step_3"] on the chain step_1 -> step_2 ->
\* step_3, the first invoke runs step_1 then step_2 and pauses with step_3
\* not run; the following invoke with no input on the same session runs
\* step_3 once and completes, and runs neither step_1 nor step_2 again.
C25_BreakpointBeforeStep3 ==
    demo = "steps" =>
        \A s \in Sessions :
            /\ (Len(ops[s]) = 1 /\ LastOp(s).op = "invoke") =>
                  /\ IsPrefix(trace[s], <<"step_1", "step_2">>)
                  /\ status[s] \in {"RUNNING", "PAUSED"}
                  /\ status[s] = "PAUSED" <=>
                        (trace[s] = <<"step_1", "step_2">> /\ Latest(s).next = {"step_3"})
            /\ (Len(ops[s]) = 2 /\ LastOp(s).op = "resume") =>
                  /\ IsPrefix(<<"step_1", "step_2">>, trace[s])
                  /\ IsPrefix(trace[s], <<"step_1", "step_2", "step_3">>)
                  /\ status[s] \in {"RUNNING", "COMPLETED"}
                  /\ status[s] = "COMPLETED" => trace[s] = <<"step_1", "step_2", "step_3">>
            /\ Len(ops[s]) <= 2
            /\ status[s] = "COMPLETED" => Len(ops[s]) = 2

C25_Witness ==
    /\ demo = "steps"
    /\ status["s1"] = "COMPLETED"
    /\ ops["s1"][2].op = "resume"
    /\ trace["s1"] = <<"step_1", "step_2", "step_3">>

\* C26: when the two nodes that follow START both interrupt in one run, the
\* run pauses with both interrupts pending; one resume carrying a value for
\* each interrupt hands every node the value given for its own interrupt,
\* never the other node's; the session completes only after both nodes have
\* run again with their values, and text_1 and text_2 are each set from the
\* value of their own node.
C26_EachInterruptGetsItsOwnValue ==
    demo = "multi" =>
        \A s \in Sessions :
            /\ (Len(ops[s]) = 1 /\ status[s] = "PAUSED") =>
                  /\ PendingNodes(s) = {"human_node_1", "human_node_2"}
                  /\ Cardinality(Latest(s).pending) = 2
            /\ (Len(ops[s]) = 2 /\ LastOp(s).op = "resume") =>
                  /\ DOMAIN LastOp(s).arg = {"human_node_1", "human_node_2"}
                  /\ status[s] \in {"RUNNING", "COMPLETED"}
                  /\ status[s] = "RUNNING" =>
                        \A n \in {"human_node_1", "human_node_2"} :
                            resumeVals[s][n] = <<LastResume(s, n)>>
                  /\ status[s] = "COMPLETED" =>
                        /\ Latest(s).state["text_1"] = LastResume(s, "human_node_1")
                        /\ Latest(s).state["text_2"] = LastResume(s, "human_node_2")
                        /\ Count(trace[s], "human_node_1") = 2
                        /\ Count(trace[s], "human_node_2") = 2
            /\ status[s] = "COMPLETED" => (Len(ops[s]) = 2 /\ LastOp(s).op = "resume")

\* The two nodes were given different values and each kept its own.
C26_Witness ==
    /\ demo = "multi"
    /\ status["s1"] = "COMPLETED"
    /\ LastResume("s1", "human_node_1") = StrV("edited for t1")
    /\ LastResume("s1", "human_node_2") = StrV("edited for t2")
    /\ Latest("s1").state["text_1"] = StrV("edited for t1")
    /\ Latest("s1").state["text_2"] = StrV("edited for t2")

(***************************************************************************)
(* demo_tool_call_review_wrapper: the agent of create_react_agent with the *)
(* tool add_human_in_the_loop(book_hotel).                                 *)
(***************************************************************************)
InitWrap == demo = "wrap" /\ InitSessions /\ InitOthers

NextWrap ==
    \/ \E s \in Sessions, input \in InvokeInputs(demo) : Invoke(s, input)
    \/ \E s \in Sessions, n \in Graph(demo).nodes :
          \E llm \in (IF AsksLLM(demo, n) THEN LLMChoices ELSE {"none"}) : ExecNode(s, n, llm)
    \/ \E s \in Sessions : EndStep(s)
    \/ \E s \in Sessions :
          \E rv \in [PendingNodes(s) -> ResumeInputs(demo)] : Resume(s, rv)

SpecWrap == InitWrap /\ [][NextWrap]_vars

\* The invocations of the wrapped tool that the human responses given on the
\* session up to operation i call for, in order.
RECURSIVE Wanted(_, _)
Wanted(s, i) ==
    IF i = 0 THEN <<>>
    ELSE LET o == ops[s][i]
             v == IF o.op = "resume" THEN o.arg["tools"] ELSE NoneV
         IN Wanted(s, i - 1) \o
               (IF v = ListV(Resp("accept", "")) THEN <<StrV(HotelName)>>
                ELSE IF v.t = "list" /\ v.k = "type" /\ v.s = "edit" /\ v.a # ""
                THEN <<StrV(v.a)>>
                ELSE <<>>)

\* The tools task has run since the last human response.
Answered(s) == Len(trace[s]) > mark[s]

\* C27: a tool wrapped by add_human_in_the_loop does not invoke the tool it
\* wraps before a human response has arrived, and invokes it at most once
\* per response: with the original arguments on accept, with the arguments
\* of the response on edit; on response it does not invoke it and the tool
\* result is the human's args; on any other type it raises ValueError and
\* does not invoke it.
C27_WrappedToolWaitsForHuman ==
    \A s \in Sessions :
        /\ IsPrefix(effects[s], Wanted(s, Len(ops[s])))
        /\ (ops[s] # <<>> /\ LastOp(s).op = "resume") =>
              LET v == LastResume(s, "tools")
                  before == Wanted(s, Len(ops[s]) - 1)
                  msgs == Latest(s).state["messages"]
              IN /\ ~Answered(s) => effects[s] = before
                 /\ Answered(s) =>
                       /\ effects[s] = Wanted(s, Len(ops[s]))
                       /\ Len(effects[s]) <= Len(before) + 1
                       /\ (v.t = "list" /\ v.s \in {"accept", "edit", "response"}) =>
                             status[s] # "FAILED"
                       /\ (v.t = "list" /\ v.s \notin {"accept", "edit", "response"}) =>
                             /\ status[s] = "FAILED"
                             /\ result[s].err = "ValueError"
                             /\ effects[s] = before
                       /\ (v.t = "list" /\ v.s = "response") => effects[s] = before
                 /\ (Answered(s) /\ trace[s][Len(trace[s])] = "tools"
                       /\ status[s] = "RUNNING" /\ writes[s] = {}) =>
                       msgs[Len(msgs)] =
                          ToolMsg(CASE v.s = "accept" ->
                                          "Successfully booked a stay at McKittrick."
                                    [] v.s = "edit" ->
                                          "Successfully booked a stay at " \o v.a \o "."
                                    [] OTHER -> v.a)

\* The human edited the call and the tool was invoked once, with the edited
\* hotel.
C27_Witness ==
    /\ demo = "wrap"
    /\ ops["s1"] # <<>>
    /\ LastOp("s1").op = "resume"
    /\ LastResume("s1", "tools") = ListV(Resp("edit", "Ritz"))
    /\ effects["s1"] = <<StrV("Ritz")>>
    /\ Answered("s1")
    /\ writes["s1"] = {}
    /\ Latest("s1").state["messages"][Len(Latest("s1").state["messages"])] =
          ToolMsg("Successfully booked a stay at Ritz.")

\* C28: when parent_node invokes a subgraph whose second node interrupts,
\* the first run enters parent_node, some_node and human_node once each and
\* pauses; the resume starts parent_node again from its beginning and
\* human_node again from its beginning, and does not run some_node again:
\* over the first run and one resume parent_node and human_node are entered
\* exactly twice each and some_node exactly once.
C28_ResumeRestartsParentAndHumanNode ==
    \A s \in Sessions :
        LET e == nested[s].entered
        IN /\ IsPrefix(e, <<"parent_node", "some_node", "human_node",
                           "parent_node", "human_node">>)
           /\ ~nested[s].resumed =>
                 IsPrefix(e, <<"parent_node", "some_node", "human_node">>)
           /\ nested[s].pc = "paused" => e = <<"parent_node", "some_node", "human_node">>
           /\ nested[s].resumed => Len(e) >= 3
           /\ nested[s].pc = "completed" =>
                 /\ nested[s].resumed
                 /\ Count(e, "parent_node") = 2
                 /\ Count(e, "human_node") = 2
                 /\ Count(e, "some_node") = 1

C28_Witness ==
    /\ nested["s1"].pc = "completed"
    /\ nested["s1"].resumed
    /\ Count(nested["s1"].entered, "parent_node") = 2
    /\ Count(nested["s1"].entered, "human_node") = 2
    /\ Count(nested["s1"].entered, "some_node") = 1

(***************************************************************************)
(* run_examples.py: the menu of the human-in-the-loop demos, run_one and   *)
(* run_all.  env says how each example ends when it is called: it returns, *)
(* raises an Exception, or raises KeyboardInterrupt.                       *)
(***************************************************************************)
\* get_menu(): the examples in menu order.
Menu ==
    <<"demo_interrupt_minimal", "demo_interrupt_extended",
      "demo_resume_multiple_interrupts", "demo_approve_or_reject_minimal",
      "demo_approve_or_reject_extended", "demo_edit_state_minimal",
      "demo_edit_state_extended", "demo_tool_call_review_direct_interrupt",
      "demo_tool_call_review_wrapper", "demo_validate_input_minimal",
      "demo_validate_input_extended", "demo_static_interrupt_compile_time",
      "demo_static_interrupt_runtime", "demo_side_effects_after_interrupt",
      "demo_side_effects_separate_node", "demo_parent_subgraph_interrupt",
      "demo_multiple_interrupts_in_one_node_caution">>

\* How many examples of one run end in an exception.
MaxFailures == 2

\* What run_all does after an example ended with outcome o: the except
\* clauses of its loop body.
\* (variant: an Exception also ends the loop)
AfterExample_exception_breaks(o) == IF o = "return" THEN "continue" ELSE "break"

AfterExample(o) == IF o = "KeyboardInterrupt" THEN "break" ELSE "continue"

\* run_one(index)
CallRunOne ==
    /\ py.phase = "idle"
    /\ py.top = "run_one"
    /\ py' = IF py.env.index < 1 \/ py.env.index > Len(Menu)
             THEN [py EXCEPT !.phase = "done"]
             ELSE [py EXCEPT !.phase = "call", !.idx = py.env.index]
    /\ UNCHANGED <<runVars, iter, builder, running, nested, subStore, writing>>

\* run_all()
CallRunAll ==
    /\ py.phase = "idle"
    /\ py.top = "run_all"
    /\ py' = [py EXCEPT !.phase = "call", !.idx = 1]
    /\ UNCHANGED <<runVars, iter, builder, running, nested, subStore, writing>>

\* try: fn() except KeyboardInterrupt: ... except Exception: ...
RunExample ==
    /\ py.phase = "call"
    /\ LET ran == [py EXCEPT !.calls = Append(@, Menu[py.idx])]
           o == py.env.out[py.idx]
       IN py' = IF py.top = "run_one" THEN [ran EXCEPT !.phase = "done"]
                ELSE IF AfterExample(o) = "break" \/ py.idx = Len(Menu)
                THEN [ran EXCEPT !.phase = "done"]
                ELSE [ran EXCEPT !.idx = @ + 1]
    /\ UNCHANGED <<runVars, iter, builder, running, nested, subStore, writing>>

\* The ways the examples can end, at most MaxFailures of them in an
\* exception.
RECURSIVE Failing(_)
Failing(k) ==
    IF k = 0 THEN {[i \in 1..Len(Menu) |-> "return"]}
    ELSE {[out EXCEPT ![i] = o] :
             out \in Failing(k - 1), i \in 1..Len(Menu),
             o \in {"return", "Exception", "KeyboardInterrupt"}}

MenuOutcomes == Failing(MaxFailures)

InitMenu ==
    /\ InitRun
    /\ demo = "interrupt"
    /\ iter = NoIteration
    /\ builder = NoBuilder
    /\ running = [s \in Sessions |-> {}]
    /\ nested = [s \in Sessions |-> NotStarted]
    /\ subStore = [t \in Sessions |-> NoLogs]
    /\ writing = [t \in Sessions |-> {}]
    /\ py \in {[NoCall EXCEPT !.top = "run_one",
                                !.env = [index |-> i, out |-> [j \in 1..Len(Menu) |-> o]]] :
                  i \in 0..(Len(Menu) + 1),
                  o \in {"return", "Exception", "KeyboardInterrupt"}}
          \cup {[NoCall EXCEPT !.top = "run_all", !.env = [index |-> 0, out |-> out]] :
                  out \in MenuOutcomes}

NextMenu == CallRunOne \/ CallRunAll \/ RunExample

SpecMenu == InitMenu /\ [][NextMenu]_vars

\* The examples run_all is to run: those up to the first one that ends in
\* KeyboardInterrupt, all of them when none does.
UpToBreak ==
    LET ki == {i \in 1..Len(Menu) : py.env.out[i] = "KeyboardInterrupt"}
        last == IF ki = {} THEN Len(Menu) ELSE CHOOSE i \in ki : \A j \in ki : i <= j
    IN SubSeq(Menu, 1, last)

\* C29: run_one(index) runs exactly the example at that 1-based index, and
\* nothing when the index is below 1 or above the number of examples;
\* run_all runs the examples in menu order; an example that raises an
\* Exception does not stop the following ones; a KeyboardInterrupt stops
\* run_all, and no later example runs.  Nothing an example raises leaves
\* run_one or run_all.
C29_MenuRunsExamplesIndependently ==
    /\ py.raised = ""
    /\ py.top = "run_one" =>
          /\ Len(py.calls) <= 1
          /\ py.phase = "done" =>
                py.calls = IF py.env.index \in 1..Len(Menu) THEN <<Menu[py.env.index]>>
                           ELSE <<>>
    /\ py.top = "run_all" =>
          /\ IsPrefix(py.calls, UpToBreak)
          /\ py.phase = "done" <=> py.calls = UpToBreak
          /\ py.phase # "done" => ENABLED NextMenu

\* An example raised an Exception, a later one KeyboardInterrupt: the loop
\* went past the first and stopped at the second.
C29_Witness ==
    /\ py.top = "run_all"
    /\ py.phase = "done"
    /\ py.env.out[2] = "Exception"
    /\ py.env.out[5] = "KeyboardInterrupt"
    /\ Len(py.calls) = 5

(***************************************************************************)
(* build_tool_chatbot: the chatbot / tools loop, run on a user message.    *)
(***************************************************************************)
InitToolChat == demo = "toolchat" /\ InitSessions /\ InitOthers

NextToolChat ==
    \/ \E s \in Sessions, input \in InvokeInputs(demo) : Invoke(s, input)
    \/ \E s \in Sessions, n \in Graph(demo).nodes :
          \E llm \in (IF AsksLLM(demo, n) THEN ToolChatChoices ELSE {"none"}) :
             ExecNode(s, n, llm)
    \/ \E s \in Sessions : EndStep(s)

SpecToolChat == InitToolChat /\ [][NextToolChat]_vars

\* The position of the last message of the model in a list of messages
\* (0 when there is none).
RECURSIVE LastAI(_, _)
LastAI(msgs, i) == IF i = 0 \/ msgs[i].role = "ai" THEN i ELSE LastAI(msgs, i - 1)

====
